---------------------------- MODULE Spec2Model ----------------------------
(***************************************************************************)
(* Content store of the Spaces tool (results_manager.py): one SQLite table *)
(* content_library, written by add_content / update_content_notes /        *)
(* delete_content and read by get_content_by_id / get_all_content /        *)
(* filter_content.                                                         *)
(*                                                                         *)
(* Texts are sequences of one-character strings, so that JSON encoding,    *)
(* JSON decoding and LIKE matching are computed character by character.    *)
(* Python values that travel through json.dumps / json.loads are tagged    *)
(* records [t, v].                                                         *)
(***************************************************************************)
EXTENDS Integers, Sequences, FiniteSets, TLC

(***************************************************************************)
(* Python values                                                           *)
(***************************************************************************)
\* Python None where a text is expected (a column that is NULL).
None == <<"None">>

PyNull == [t |-> "null", v |-> <<>>]
PyBool(b) == [t |-> "bool", v |-> b]
PyInt(n) == [t |-> "int", v |-> n]
\* a float with whole part w and fraction digits f: 1.5 is PyFloat(1, <<5>>)
PyFloat(w, f) == [t |-> "float", v |-> <<w, f>>]
PyStr(s) == [t |-> "str", v |-> s]
PyList(xs) == [t |-> "list", v |-> xs]
\* a dict is the sequence of its <<key, value>> items in insertion order
PyDict(kvs) == [t |-> "dict", v |-> kvs]
\* an object json.dumps has no encoding for (a set, a file handle, ...)
PyObject == [t |-> "object", v |-> <<>>]

(***************************************************************************)
(* json.dumps with the default separators and ensure_ascii=True            *)
(***************************************************************************)
Digits == <<"0", "1", "2", "3", "4", "5", "6", "7", "8", "9">>

IsDigit(c) == \E i \in 1..10 : Digits[i] = c

DigitVal(c) == (CHOOSE i \in 1..10 : Digits[i] = c) - 1

RECURSIVE NatText(_)
NatText(n) == IF n < 10 THEN <<Digits[n + 1]>>
              ELSE NatText(n \div 10) \o <<Digits[(n % 10) + 1]>>

IntText(n) == IF n < 0 THEN <<"-">> \o NatText(0 - n) ELSE NatText(n)

RECURSIVE DigitsText(_)
DigitsText(ds) == IF ds = <<>> THEN <<>>
                  ELSE <<Digits[Head(ds) + 1]>> \o DigitsText(Tail(ds))

\* the one non-ASCII character of the alphabet and its \uXXXX escape
NonAscii == "é"
NonAsciiEscape == <<"\\", "u", "0", "0", "e", "9">>

EscapeChar(c) == IF c = "\"" THEN <<"\\", "\"">>
                 ELSE IF c = "\\" THEN <<"\\", "\\">>
                 ELSE IF c = NonAscii THEN NonAsciiEscape
                 ELSE <<c>>

RECURSIVE EscapeText(_)
EscapeText(s) == IF s = <<>> THEN <<>>
                 ELSE EscapeChar(Head(s)) \o EscapeText(Tail(s))

QuoteText(s) == <<"\"">> \o EscapeText(s) \o <<"\"">>

RECURSIVE Serializable(_)
Serializable(x) ==
    CASE x.t = "object" -> FALSE
      [] x.t = "list" -> \A i \in 1..Len(x.v) : Serializable(x.v[i])
      [] x.t = "dict" -> \A i \in 1..Len(x.v) : Serializable(x.v[i][2])
      [] OTHER -> TRUE

RECURSIVE Encode(_)
RECURSIVE EncodeItems(_)
RECURSIVE EncodePairs(_)
Encode(x) ==
    CASE x.t = "null" -> <<"n", "u", "l", "l">>
      [] x.t = "bool" -> IF x.v THEN <<"t", "r", "u", "e">>
                         ELSE <<"f", "a", "l", "s", "e">>
      [] x.t = "int" -> IntText(x.v)
      [] x.t = "float" -> IntText(x.v[1]) \o <<".">> \o DigitsText(x.v[2])
      [] x.t = "str" -> QuoteText(x.v)
      [] x.t = "list" -> <<"[">> \o EncodeItems(x.v) \o <<"]">>
      [] x.t = "dict" -> <<"{">> \o EncodePairs(x.v) \o <<"}">>

EncodeItems(xs) ==
    IF xs = <<>> THEN <<>>
    ELSE IF Len(xs) = 1 THEN Encode(xs[1])
    ELSE Encode(xs[1]) \o <<",", " ">> \o EncodeItems(Tail(xs))

EncodePairs(kvs) ==
    IF kvs = <<>> THEN <<>>
    ELSE IF Len(kvs) = 1
         THEN QuoteText(kvs[1][1]) \o <<":", " ">> \o Encode(kvs[1][2])
    ELSE QuoteText(kvs[1][1]) \o <<":", " ">> \o Encode(kvs[1][2])
         \o <<",", " ">> \o EncodePairs(Tail(kvs))

\* json.dumps(x): the text, or TypeError for an object it cannot encode
json_dumps(x) == IF Serializable(x) THEN [ok |-> TRUE, text |-> Encode(x)]
                 ELSE [ok |-> FALSE, text |-> <<>>]

(***************************************************************************)
(* json.loads: the recursive-descent decoder of the json module            *)
(***************************************************************************)
\* the depth of nested arrays and objects at which the scanner's recursion
\* check (Py_EnterRecursiveCall) raises RecursionError; sys.getrecursionlimit()
\* is 1000 by default
RecursionLimit == 3

\* a parse result: ok, the value, the position after it, and the error raised
Fail == [ok |-> FALSE, v |-> PyNull, p |-> 0, err |-> "JSONDecodeError"]
TooDeep == [ok |-> FALSE, v |-> PyNull, p |-> 0, err |-> "RecursionError"]
Done(x, p) == [ok |-> TRUE, v |-> x, p |-> p, err |-> ""]

IsWs(c) == c \in {" ", "\t", "\n", "\r"}

RECURSIVE SkipWs(_, _)
SkipWs(s, p) == IF p <= Len(s) /\ IsWs(s[p]) THEN SkipWs(s, p + 1) ELSE p

\* does the literal w occur in s at position p
Match(s, p, w) == /\ p + Len(w) - 1 <= Len(s)
                  /\ \A i \in 1..Len(w) : s[p + i - 1] = w[i]

\* setting a key of a dict keeps the key's place and replaces its value
DictSet(kvs, k, x) ==
    IF \E i \in 1..Len(kvs) : kvs[i][1] = k
    THEN [i \in 1..Len(kvs) |-> IF kvs[i][1] = k THEN <<k, x>> ELSE kvs[i]]
    ELSE Append(kvs, <<k, x>>)

RECURSIVE ScanDigits(_, _)
ScanDigits(s, p) == IF p <= Len(s) /\ IsDigit(s[p]) THEN ScanDigits(s, p + 1)
                    ELSE p

RECURSIVE NatOf(_, _, _)
NatOf(s, p, q) == IF q < p THEN 0
                  ELSE NatOf(s, p, q - 1) * 10 + DigitVal(s[q])

\* NUMBER_RE: -?(0|[1-9]\d*)(\.\d+)? (exponents are outside the alphabet)
ParseNumber(s, p) ==
    LET neg == p <= Len(s) /\ s[p] = "-"
        i == IF neg THEN p + 1 ELSE p
        j == IF i <= Len(s) /\ s[i] = "0" THEN i + 1 ELSE ScanDigits(s, i)
        n == NatOf(s, i, j - 1)
        w == IF neg THEN 0 - n ELSE n
        k == IF j <= Len(s) /\ s[j] = "." THEN ScanDigits(s, j + 1) ELSE j
    IN IF j = i THEN Fail
       ELSE IF k > j + 1
            THEN Done(PyFloat(w, [d \in 1..(k - j - 1) |-> DigitVal(s[j + d])]), k)
            ELSE Done(PyInt(w), j)

\* py_scanstring from position p, just after the opening quote
RECURSIVE ParseString(_, _, _)
ParseString(s, p, acc) ==
    IF p > Len(s) THEN Fail
    ELSE IF s[p] = "\"" THEN Done(PyStr(acc), p + 1)
    ELSE IF s[p] \in {"\n", "\t", "\r"} THEN Fail
    ELSE IF s[p] = "\\"
         THEN IF p + 1 > Len(s) THEN Fail
              ELSE IF s[p + 1] \in {"\"", "\\"}
                   THEN ParseString(s, p + 2, Append(acc, s[p + 1]))
              ELSE IF Match(s, p, NonAsciiEscape)
                   THEN ParseString(s, p + 6, Append(acc, NonAscii))
              ELSE Fail
    ELSE ParseString(s, p + 1, Append(acc, s[p]))

RECURSIVE ParseValue(_, _, _)
RECURSIVE ParseArray(_, _, _, _)
RECURSIVE ParseObject(_, _, _, _)
\* scan_once, d arrays and objects deep
ParseValue(s, p, d) ==
    IF p > Len(s) THEN Fail
    ELSE IF s[p] = "\"" THEN ParseString(s, p + 1, <<>>)
    ELSE IF s[p] \in {"{", "["} /\ d + 1 > RecursionLimit THEN TooDeep
    ELSE IF s[p] = "{"
         THEN LET q == SkipWs(s, p + 1)
              IN IF q <= Len(s) /\ s[q] = "}" THEN Done(PyDict(<<>>), q + 1)
                 ELSE ParseObject(s, q, <<>>, d + 1)
    ELSE IF s[p] = "["
         THEN LET q == SkipWs(s, p + 1)
              IN IF q <= Len(s) /\ s[q] = "]" THEN Done(PyList(<<>>), q + 1)
                 ELSE ParseArray(s, q, <<>>, d + 1)
    ELSE IF Match(s, p, <<"n", "u", "l", "l">>) THEN Done(PyNull, p + 4)
    ELSE IF Match(s, p, <<"t", "r", "u", "e">>) THEN Done(PyBool(TRUE), p + 4)
    ELSE IF Match(s, p, <<"f", "a", "l", "s", "e">>)
         THEN Done(PyBool(FALSE), p + 5)
    ELSE ParseNumber(s, p)

\* the one element of a singleton; {F(x) : x \in {e}} computes e once where F
\* uses it several times
Only(S) == CHOOSE x \in S : TRUE

\* JSONArray: p is at the start of the next element
ParseArray(s, p, acc, d) ==
    Only({IF ~r.ok THEN r
          ELSE LET q == SkipWs(s, r.p)
               IN IF q > Len(s) THEN Fail
                  ELSE IF s[q] = "]" THEN Done(PyList(Append(acc, r.v)), q + 1)
                  ELSE IF s[q] = ","
                       THEN ParseArray(s, SkipWs(s, q + 1), Append(acc, r.v), d)
                  ELSE Fail :
          r \in {ParseValue(s, p, d)}})

\* JSONObject: p is at the opening quote of the next key
ParseObject(s, p, acc, d) ==
    IF p > Len(s) \/ s[p] # "\"" THEN Fail
    ELSE Only({
           LET c == SkipWs(s, k.p)
           IN IF ~k.ok THEN Fail
              ELSE IF c > Len(s) \/ s[c] # ":" THEN Fail
              ELSE Only({
                     LET q == SkipWs(s, r.p)
                     IN IF ~r.ok THEN r
                        ELSE IF q > Len(s) THEN Fail
                        ELSE IF s[q] = "}"
                             THEN Done(PyDict(DictSet(acc, k.v.v, r.v)), q + 1)
                        ELSE IF s[q] = ","
                             THEN ParseObject(s, SkipWs(s, q + 1),
                                              DictSet(acc, k.v.v, r.v), d)
                        ELSE Fail :
                     r \in {ParseValue(s, SkipWs(s, c + 1), d)}}) :
           k \in {ParseString(s, p + 1, <<>>)}})

\* json.loads(s): the value, or JSONDecodeError (also for trailing data), or
\* RecursionError
json_loads(s) ==
    Only({IF r.ok /\ SkipWs(s, r.p) = Len(s) + 1
          THEN [ok |-> TRUE, v |-> r.v, err |-> ""]
          ELSE IF r.ok
               THEN [ok |-> FALSE, v |-> PyNull, err |-> "JSONDecodeError"]
          ELSE [ok |-> FALSE, v |-> PyNull, err |-> r.err] :
          r \in {ParseValue(s, SkipWs(s, 1), 0)}})

(***************************************************************************)
(* The SQL the store relies on                                             *)
(***************************************************************************)
UpperLetters == <<"A", "B", "C", "D", "E", "F", "G", "H", "I", "J", "K", "L",
                  "M", "N", "O", "P", "Q", "R", "S", "T", "U", "V", "W", "X",
                  "Y", "Z">>
LowerLetters == <<"a", "b", "c", "d", "e", "f", "g", "h", "i", "j", "k", "l",
                  "m", "n", "o", "p", "q", "r", "s", "t", "u", "v", "w", "x",
                  "y", "z">>

\* a comparison that keeps the case
FoldCase_exact(c) == c

\* LIKE folds the case of ASCII letters only
FoldCase(c) == IF \E i \in 1..26 : UpperLetters[i] = c
               THEN LowerLetters[CHOOSE i \in 1..26 : UpperLetters[i] = c]
               ELSE c

\* text s LIKE pattern pat: % is any run of characters, _ any one character
RECURSIVE Like(_, _)
Like(pat, s) ==
    IF pat = <<>> THEN s = <<>>
    ELSE IF Head(pat) = "%"
         THEN Like(Tail(pat), s) \/ (s # <<>> /\ Like(pat, Tail(s)))
    ELSE IF s = <<>> THEN FALSE
    ELSE IF Head(pat) = "_" THEN Like(Tail(pat), Tail(s))
    ELSE FoldCase(Head(pat)) = FoldCase(Head(s)) /\ Like(Tail(pat), Tail(s))

\* Python truthiness of an optional text argument or column
Truthy(s) == s # None /\ s # <<>>

Max(S) == IF S = {} THEN 0 ELSE CHOOSE m \in S : \A n \in S : n <= m

VARIABLES
    table,      \* content_library: id -> row, for the ids present
    seq,        \* sqlite_sequence entry of content_library (AUTOINCREMENT)
    now,        \* the reading datetime.now() gives
    tie_order,  \* how the engine orders rows that ORDER BY leaves tied
    last,       \* the last write call: operation, arguments, outcome
    issued      \* history: the rows inserted so far, as inserted, in order

VARIABLES
    fs,         \* the local paths that exist
    cli,        \* app.py: the tokens of a run command and what they were bound to
    gui,        \* gui.py: the execution form, its widgets and the last run
    job,        \* space_runner.py: a submitted job and the last call on it
    conn        \* the connections of concurrent callers of the store

VARIABLES
    favorites_file, \* space_finder.py: favorite_spaces.json and its text
    stdout,         \* sys.stdout: the stream object print writes to
    rl              \* gui.py: the results library tab: pager and table

vars == <<table, seq, now, tie_order, last, issued, fs, cli, gui, job, conn,
          favorites_file, stdout, rl>>

\* the content store and everything outside it
store_vars == <<table, seq, now, tie_order, last, issued>>
local_vars == <<favorites_file, stdout, rl>>
outside_store == <<fs, cli, gui, job, conn, local_vars>>

\* nothing outside the store has happened
NoPredict == [op |-> "none", output_type_for_db |-> <<>>, client |-> FALSE,
              remote |-> 0, raised |-> "", called |-> FALSE,
              api_name |-> <<>>, args |-> <<>>, kwargs |-> <<>>,
              ret |-> [t |-> "null", v |-> <<>>], caught |-> "", saved |-> 0]
NoTokens == [pc |-> "none", params_list |-> <<>>, args_out |-> <<>>,
             kwargs_out |-> <<>>, warnings |-> <<>>, raised |-> "",
             run |-> NoPredict]
NoForm == [pc |-> "none", parameters |-> <<>>, widgets |-> <<>>,
           run |-> [collected |-> <<>>, warnings |-> <<>>, raised |-> "",
                    invoked |-> FALSE, args |-> <<>>, error |-> FALSE]]
NoJob == [pc |-> "none", value |-> [t |-> "null", v |-> <<>>], polls |-> 0,
          last |-> [op |-> "none", timeout |-> FALSE, cause |-> "",
                    ret |-> [t |-> "null", v |-> <<>>], raised |-> "",
                    printed |-> ""]]
NoCallers == <<>>

\* no favorites file, print goes to the console, the results tab not loaded
NoFile == [exists |-> FALSE, content |-> <<>>, added |-> <<>>]
Console == [stream |-> "console", pc |-> "none", before |-> "console",
            old_stdout |-> "", api_details |-> [t |-> "null", v |-> <<>>],
            ret |-> [t |-> "null", v |-> <<>>], calls |-> 0]
NoPager == [pc |-> "none", current_results_page |-> 0,
            results_per_page |-> 15, space_id_filter |-> <<"None">>,
            rows |-> <<>>, page_label |-> 1, prev_enabled |-> TRUE,
            next_enabled |-> TRUE]

LocalIdle ==
    /\ favorites_file = NoFile
    /\ stdout = Console
    /\ rl = NoPager

OutsideIdle ==
    /\ fs = {}
    /\ cli = NoTokens
    /\ gui = NoForm
    /\ job = NoJob
    /\ conn = NoCallers
    /\ LocalIdle

Columns == {"id", "space_id", "task_description", "timestamp", "output_type",
            "output_data", "parameters", "notes"}

NoCall == [op |-> "none", input |-> <<>>, id |-> 0, notes |-> None,
           ret |-> PyNull, raised |-> FALSE, error |-> FALSE]

\* init_db on a fresh database file
init_db ==
    /\ table = <<>>
    /\ seq = 0
    /\ now = 0
    /\ tie_order \in {"rowid_asc", "rowid_desc"}
    /\ last = NoCall
    /\ issued = <<>>

(***************************************************************************)
(* Reads                                                                   *)
(***************************************************************************)
\* a text column as the Python value the cursor yields
ColumnValue(s) == IF s = None THEN PyNull ELSE PyStr(s)

\* the row handed back without decoding its parameters text
_dict_factory_undecoded(row) ==
    [row EXCEPT !.parameters = ColumnValue(row.parameters)]

_dict_factory(row) ==
    IF Truthy(row.parameters)
    THEN LET r == json_loads(row.parameters)
         IN [row EXCEPT !.parameters = IF r.ok THEN r.v ELSE PyNull]
    ELSE [row EXCEPT !.parameters = ColumnValue(row.parameters)]

\* fetchone() on no row
NoRecord == PyNull

get_content_by_id(content_id) ==
    IF content_id \in DOMAIN table THEN _dict_factory(table[content_id])
    ELSE NoRecord

\* a comes before b under ORDER BY timestamp DESC; rows with equal
\* timestamps come in the order the engine scans them
Before(a, b) ==
    \/ table[a].timestamp > table[b].timestamp
    \/ /\ table[a].timestamp = table[b].timestamp
       /\ IF tie_order = "rowid_asc" THEN a < b ELSE a > b

RECURSIVE OrderBy(_)
OrderBy(ids) ==
    IF ids = {} THEN <<>>
    ELSE LET a == CHOOSE i \in ids : \A j \in ids \ {i} : Before(i, j)
         IN <<a>> \o OrderBy(ids \ {a})

\* LIMIT limit OFFSET offset: a negative limit is no limit, a negative
\* offset is offset 0
\* LIMIT and OFFSET bound the wrong way round
LimitOffset_swapped(s, limit, offset) ==
    LET o == IF limit < 0 THEN 0 ELSE limit
        n == IF offset < 0 THEN Len(s) ELSE offset
        e == IF o + n > Len(s) THEN Len(s) ELSE o + n
    IN SubSeq(s, o + 1, e)

LimitOffset(s, limit, offset) ==
    LET o == IF offset < 0 THEN 0 ELSE offset
        n == IF limit < 0 THEN Len(s) ELSE limit
        e == IF o + n > Len(s) THEN Len(s) ELSE o + n
    IN SubSeq(s, o + 1, e)

Fetch(ids) == [i \in 1..Len(ids) |-> _dict_factory(table[ids[i]])]

get_all_content(limit, offset) ==
    Fetch(LimitOffset(OrderBy(DOMAIN table), limit, offset))

\* every condition appended whether or not its argument was given
Where_unguarded(row, output_type, space_id, task_keyword) ==
    /\ output_type # None /\ row.output_type # None
    /\ row.output_type = output_type
    /\ space_id # None /\ row.space_id # None
    /\ row.space_id = space_id
    /\ task_keyword # None /\ row.task_description # None
    /\ Like(<<"%">> \o task_keyword \o <<"%">>, row.task_description)

\* the WHERE clause filter_content builds
Where(row, output_type, space_id, task_keyword) ==
    /\ Truthy(output_type) =>
         row.output_type # None /\ row.output_type = output_type
    /\ Truthy(space_id) =>
         row.space_id # None /\ row.space_id = space_id
    /\ Truthy(task_keyword) =>
         /\ row.task_description # None
         /\ Like(<<"%">> \o task_keyword \o <<"%">>, row.task_description)

filter_content(output_type, space_id, task_keyword, limit, offset) ==
    LET ids == {i \in DOMAIN table :
                  Where(table[i], output_type, space_id, task_keyword)}
    IN Fetch(LimitOffset(OrderBy(ids), limit, offset))

(***************************************************************************)
(* Writes                                                                  *)
(***************************************************************************)
\* the rowid an AUTOINCREMENT table gives the next inserted row
\* the rowid of a plain INTEGER PRIMARY KEY: one more than the largest present
NextRowid_no_autoincrement == Max(DOMAIN table) + 1

NextRowid == Max(DOMAIN table \cup {seq}) + 1

\* one call add_content(space_id, ..., notes) with the arguments inp
insert_content(inp, maxIds) ==
      LET params_json == json_dumps(inp.parameters)
          call == [NoCall EXCEPT !.op = "add_content", !.input = inp]
      IN /\ seq < maxIds
         /\ IF ~params_json.ok
            THEN \* TypeError from json.dumps is not an sqlite3.Error
                 /\ last' = [call EXCEPT !.raised = TRUE]
                 /\ UNCHANGED <<table, seq, issued>>
            ELSE IF inp.space_id = None \/ inp.output_data = None
            THEN \* NOT NULL constraint: IntegrityError, caught
                 /\ last' = call
                 /\ UNCHANGED <<table, seq, issued>>
            ELSE LET id == NextRowid
                     row == [id |-> id,
                             space_id |-> inp.space_id,
                             task_description |-> inp.task_description,
                             timestamp |-> now,
                             output_type |-> inp.output_type,
                             output_data |-> inp.output_data,
                             parameters |-> params_json.text,
                             notes |-> inp.notes]
                 IN /\ table' = [i \in DOMAIN table \cup {id} |->
                                   IF i = id THEN row ELSE table[i]]
                    /\ seq' = id
                    /\ last' = [call EXCEPT !.id = id, !.ret = PyInt(id)]
                    /\ issued' = Append(issued, row)
         /\ UNCHANGED <<now, tie_order>>

add_content(inputs, maxIds) ==
    \E n \in 1..Len(inputs) :
      /\ insert_content(inputs[n], maxIds)
      /\ UNCHANGED outside_store

NoteValues == {<<"m">>}

\* UPDATE without its WHERE clause
update_content_notes_all_rows ==
    \E content_id \in 1..(seq + 1), notes \in NoteValues :
      LET rowcount == IF content_id \in DOMAIN table THEN 1 ELSE 0
      IN /\ table' = [i \in DOMAIN table |-> [table[i] EXCEPT !.notes = notes]]
         /\ last' = [NoCall EXCEPT !.op = "update_content_notes",
                                   !.id = content_id, !.notes = notes,
                                   !.ret = PyBool(rowcount > 0)]
         /\ UNCHANGED <<seq, now, tie_order, issued, outside_store>>

update_content_notes ==
    \E content_id \in 1..(seq + 1), notes \in NoteValues :
      LET rowcount == IF content_id \in DOMAIN table THEN 1 ELSE 0
      IN /\ table' = [i \in DOMAIN table |->
                        IF i = content_id THEN [table[i] EXCEPT !.notes = notes]
                        ELSE table[i]]
         /\ last' = [NoCall EXCEPT !.op = "update_content_notes",
                                   !.id = content_id, !.notes = notes,
                                   !.ret = PyBool(rowcount > 0)]
         /\ UNCHANGED <<seq, now, tie_order, issued, outside_store>>

\* DELETE that reports success whatever rowcount is
delete_content_returns_true ==
    \E content_id \in 1..(seq + 1) :
      /\ table' = [i \in DOMAIN table \ {content_id} |-> table[i]]
      /\ last' = [NoCall EXCEPT !.op = "delete_content", !.id = content_id,
                                !.ret = PyBool(TRUE)]
      /\ UNCHANGED <<seq, now, tie_order, issued, outside_store>>

\* DELETE ... WHERE id <= ?
delete_content_upto ==
    \E content_id \in 1..(seq + 1) :
      LET rowcount == Cardinality({i \in DOMAIN table : i <= content_id})
      IN /\ table' = [i \in {j \in DOMAIN table : j > content_id} |-> table[i]]
         /\ last' = [NoCall EXCEPT !.op = "delete_content", !.id = content_id,
                                   !.ret = PyBool(rowcount > 0)]
         /\ UNCHANGED <<seq, now, tie_order, issued, outside_store>>

delete_content ==
    \E content_id \in 1..(seq + 1) :
      LET rowcount == IF content_id \in DOMAIN table THEN 1 ELSE 0
      IN /\ table' = [i \in DOMAIN table \ {content_id} |-> table[i]]
         /\ last' = [NoCall EXCEPT !.op = "delete_content", !.id = content_id,
                                   !.ret = PyBool(rowcount > 0)]
         /\ UNCHANGED <<seq, now, tie_order, issued, outside_store>>

\* sqlite3.Error from connect, execute or commit (file cannot be opened, disk
\* full, database locked): the connection's context manager rolls the
\* transaction back and the except branch turns the error into the return
\* value. connect comes before json.dumps, so it can fail for any input
add_content_error(inputs) ==
    \E n \in 1..Len(inputs) :
      /\ last' = [NoCall EXCEPT !.op = "add_content", !.input = inputs[n],
                                !.error = TRUE]
      /\ UNCHANGED <<table, seq, now, tie_order, issued, outside_store>>

update_content_notes_error ==
    \E content_id \in 1..(seq + 1), notes \in NoteValues :
      /\ last' = [NoCall EXCEPT !.op = "update_content_notes",
                                !.id = content_id, !.notes = notes,
                                !.ret = PyBool(FALSE), !.error = TRUE]
      /\ UNCHANGED <<table, seq, now, tie_order, issued, outside_store>>

delete_content_error ==
    \E content_id \in 1..(seq + 1) :
      /\ last' = [NoCall EXCEPT !.op = "delete_content", !.id = content_id,
                                !.ret = PyBool(FALSE), !.error = TRUE]
      /\ UNCHANGED <<table, seq, now, tie_order, issued, outside_store>>

\* time passes between two calls
Tick(maxClock) ==
    /\ now < maxClock
    /\ now' = now + 1
    /\ UNCHANGED <<table, seq, tie_order, last, issued, outside_store>>

(***************************************************************************)
(* Inputs and specifications                                               *)
(***************************************************************************)
MaxIds == 2
MaxClock == 1

Input(s, t, ot, od, p, n) ==
    [space_id |-> s, task_description |-> t, output_type |-> ot,
     output_data |-> od, parameters |-> p, notes |-> n]

RecordInputs == <<
    Input(<<"s", "1">>, <<"c", "a", "t">>, <<"t", "e", "x", "t">>, <<"d">>,
          PyDict(<<>>), None),
    Input(<<"s", "1">>, <<"C", "A", "T">>, <<"i", "m", "g">>, <<>>,
          PyDict(<< <<(<<"k">>), PyList(<<PyInt(-50), PyFloat(1, <<5>>),
                                        PyStr(<<"a", "\"", "\\", NonAscii>>),
                                        PyBool(TRUE)>>)>>,
                    <<(<<"n", " ">>), PyDict(<< <<(<<>>), PyNull>> >>)>> >>),
          <<"n">>),
    Input(<<"s", "2">>, None, None, <<"d">>, PyNull, <<>>),
    Input(<<"s", "2">>, <<"c", "_", "t">>, <<"t", "e", "x", "t">>, None,
          PyList(<<>>), None),
    Input(<<"s", "1">>, <<"c", "a", "t">>, <<"t", "e", "x", "t">>, <<"d">>,
          PyDict(<< <<(<<"f">>), PyObject>> >>), None)
>>

Init == init_db /\ OutsideIdle

Next ==
    \/ add_content(RecordInputs, MaxIds)
    \/ update_content_notes
    \/ delete_content
    \/ Tick(MaxClock)

Spec == Init /\ [][Next]_vars

\* many rows of one kind, for the paging of the list queries
PageMaxIds == 4
PageMaxClock == 2

PageInputs == <<
    Input(<<"s", "1">>, <<"c", "a", "t">>, <<"t", "e", "x", "t">>, <<"d">>,
          PyDict(<<>>), None)
>>

NextPage ==
    \/ add_content(PageInputs, PageMaxIds)
    \/ delete_content
    \/ Tick(PageMaxClock)

SpecPage == Init /\ [][NextPage]_vars

\* the database file exists before the program starts: CREATE TABLE IF NOT
\* EXISTS keeps the table and the rows another writer left in it, whatever
\* text their parameters column holds
RawTexts == <<
    <<>>,
    <<"{">>,
    <<"n", "u", "l">>,
    <<"[", "1", ",", "]">>,
    <<"{", "\"", "k", "\"", ":", " ", "1", "}", "x">>,
    <<"{", "\"", "k", "\"", ":", " ", "1", "}">>,
    None
>>

RawRow(id, text) ==
    [id |-> id, space_id |-> <<"s", "1">>, task_description |-> <<"c", "a", "t">>,
     timestamp |-> 0, output_type |-> <<"t", "e", "x", "t">>,
     output_data |-> <<"d">>, parameters |-> text, notes |-> None]

init_db_existing ==
    /\ \E a \in 1..Len(RawTexts) : table = <<RawRow(1, RawTexts[a])>>
    /\ issued = table
    /\ seq = 1
    /\ now = 0
    /\ tie_order \in {"rowid_asc", "rowid_desc"}
    /\ last = NoCall

RawMaxIds == 2

NextRaw ==
    \/ add_content(PageInputs, RawMaxIds)
    \/ update_content_notes
    \/ delete_content
    \/ Tick(MaxClock)

InitRaw == init_db_existing /\ OutsideIdle

SpecRaw == InitRaw /\ [][NextRaw]_vars

\* rows that differ in space_id, task_description and output_type, for the
\* predicates of filter_content
FilterMaxIds == 2

FilterInputs == <<
    Input(<<"s", "1">>, <<"c", "a", "t">>, <<"t", "e", "x", "t">>, <<"d">>,
          PyDict(<<>>), None),
    Input(<<"s", "1">>, <<"C", "A", "T">>, <<"i", "m", "g">>, <<"d">>,
          PyDict(<<>>), None),
    Input(<<"s", "2">>, None, None, <<"d">>, PyDict(<<>>), None)
>>

NextFilter ==
    \/ add_content(FilterInputs, FilterMaxIds)
    \/ update_content_notes
    \/ delete_content

SpecFilter == Init /\ [][NextFilter]_vars

\* the limits and offsets the list queries are asked with; -1 stands for
\* the negative ones
MaxLimit == 4
Limits == -1..MaxLimit
Offsets == -1..(2 * MaxLimit)


(***************************************************************************)
(* Properties of the write and point-read operations                       *)
(***************************************************************************)
\* this step is a call of the write operation op (or leaves everything as is)
Called(op) == last'.op = op /\ now' = now

\* an input add_content can store: the NOT NULL columns are given and the
\* parameters are JSON-representable
ValidInput(inp) == /\ inp.space_id # None
                   /\ inp.output_data # None
                   /\ Serializable(inp.parameters)

\* C1: add_content of a valid input returns an id, and get_content_by_id on
\* that id yields a record whose space_id, task_description, output_type,
\* output_data, parameters and notes equal the inputs, with id and timestamp
\* present.
C1_CreateThenGetById ==
    (last.op = "add_content" /\ ValidInput(last.input)) =>
        /\ ~last.raised
        /\ last.ret.t = "int"
        /\ LET r == get_content_by_id(last.ret.v)
           IN /\ r # NoRecord
              /\ DOMAIN r = Columns
              /\ r.id = last.ret.v
              /\ r.space_id = last.input.space_id
              /\ r.task_description = last.input.task_description
              /\ r.output_type = last.input.output_type
              /\ r.output_data = last.input.output_data
              /\ r.parameters = last.input.parameters
              /\ r.notes = last.input.notes

\* the record just created carries nested parameters (a dict holding a list
\* and a dict)
C1_Witness ==
    /\ last.op = "add_content"
    /\ last.ret.t = "int"
    /\ last.input.parameters.t = "dict"
    /\ Len(last.input.parameters.v) = 2
    /\ get_content_by_id(last.ret.v).parameters = last.input.parameters

\* C2: the ids add_content returns are strictly increasing over the whole
\* history, deleted records included, so no id is assigned twice.
C2_IdsStrictlyIncreasing ==
    \A i, j \in 1..Len(issued) : i < j => issued[i].id < issued[j].id

\* a record was created after the record with the largest id was deleted
C2_Witness ==
    /\ Len(issued) >= 2
    /\ last.op = "add_content"
    /\ last.ret.t = "int"
    /\ \E k \in 1..(Len(issued) - 1) : issued[k].id \notin DOMAIN table
    /\ DOMAIN table = {last.ret.v}

\* the columns of a row other than notes
Immutable(row) == [c \in Columns \ {"notes"} |-> row[c]]

\* C3: every record present has the id, space_id, task_description,
\* timestamp, output_type, output_data and parameters it was inserted with;
\* update_content_notes(id, n) on a present id returns True, sets the notes
\* of that record to n and changes nothing else in the table.
C3_OnlyNotesChange ==
    [][/\ \A i \in DOMAIN table' :
            \E k \in 1..Len(issued') :
               /\ issued'[k].id = i
               /\ Immutable(table'[i]) = Immutable(issued'[k])
       /\ (Called("update_content_notes") /\ last'.id \in DOMAIN table) =>
            /\ last'.ret = PyBool(TRUE)
            /\ table' = [table EXCEPT ![last'.id].notes = last'.notes]]_vars

\* an update changed the notes of one of two records
C3_Witness ==
    /\ last.op = "update_content_notes"
    /\ last.ret = PyBool(TRUE)
    /\ Cardinality(DOMAIN table) = 2
    /\ table[last.id].notes = last.notes
    /\ \E k \in 1..Len(issued) :
          issued[k].id = last.id /\ issued[k].notes # last.notes
    /\ \E j \in DOMAIN table : table[j].notes # last.notes

\* C4: update_content_notes and delete_content on an id that is not in the
\* table (never created, or deleted) return False and leave the table as it
\* was.
C4_MissingIdIsNoOp ==
    [][((Called("update_content_notes") \/ Called("delete_content"))
        /\ last'.id \notin DOMAIN table) =>
            /\ last'.ret = PyBool(FALSE)
            /\ table' = table]_vars

\* a delete of an id that an earlier delete removed, with a record left
C4_Witness ==
    /\ last.op = "delete_content"
    /\ last.ret = PyBool(FALSE)
    /\ \E k \in 1..Len(issued) : issued[k].id = last.id
    /\ last.id \notin DOMAIN table
    /\ table # <<>>

\* C5: delete_content(id) on a present id returns True and removes that
\* record only: get_content_by_id(id) then finds nothing and every other
\* record is as before.
C5_DeleteRemovesExactlyOne ==
    [][(Called("delete_content") /\ last'.id \in DOMAIN table) =>
            /\ last'.ret = PyBool(TRUE)
            /\ \A c \in DOMAIN table :
                 c = last'.id => get_content_by_id(c)' = NoRecord
            /\ DOMAIN table' = DOMAIN table \ {last'.id}
            /\ \A j \in DOMAIN table' : table'[j] = table[j]]_vars

\* the older of two records was deleted and the newer one is still there
C5_Witness ==
    /\ last.op = "delete_content"
    /\ last.ret = PyBool(TRUE)
    /\ \E j \in DOMAIN table : j > last.id

(***************************************************************************)
(* Properties of the list queries                                          *)
(***************************************************************************)
\* C6: get_all_content returns its records by timestamp descending, records
\* with equal timestamps by id descending, so that the result is in reverse
\* insertion order, for every limit and offset.
C6_TiesBrokenByIdDescending ==
    \A limit \in Limits, offset \in Offsets :
       LET r == get_all_content(limit, offset)
       IN \A i, j \in 1..Len(r) : i < j =>
             \/ r[i].timestamp > r[j].timestamp
             \/ r[i].timestamp = r[j].timestamp /\ r[i].id > r[j].id

\* C7: filter_content with no output_type, no space_id and no task_keyword
\* returns the same sequence of records as get_all_content, for every limit
\* and offset.
C7_FilterWithoutPredicatesIsList ==
    \A limit \in Limits, offset \in Offsets :
       filter_content(None, None, None, limit, offset)
          = get_all_content(limit, offset)

\* a page of two records that starts after the first of four records, two
\* of them with the same timestamp
C7_Witness ==
    /\ Len(filter_content(None, None, None, 2, 1)) = 2
    /\ Cardinality(DOMAIN table) = 4
    /\ \E i, j \in DOMAIN table :
          i # j /\ table[i].timestamp = table[j].timestamp

\* the ids of the records of a query result
Ids(r) == {r[i].id : i \in 1..Len(r)}

\* C8: for every limit L >= 0 and page k, get_all_content(L, k*L) and
\* get_all_content(L, (k+1)*L) share no record and together are
\* get_all_content(2*L, k*L), also among records of equal timestamp.
C8_PagesPartitionTheList ==
    \A L \in 0..MaxLimit, k \in 0..MaxLimit :
       LET a == get_all_content(L, k * L)
           b == get_all_content(L, (k + 1) * L)
       IN /\ Ids(a) \cap Ids(b) = {}
          /\ a \o b = get_all_content(2 * L, k * L)

\* four records, three of them with the same timestamp: the pages of two at
\* offsets 0 and 2 hold all four
C8_Witness ==
    /\ Cardinality(DOMAIN table) = 4
    /\ \E t \in 0..now : Cardinality({i \in DOMAIN table :
                                        table[i].timestamp = t}) = 3
    /\ Ids(get_all_content(2, 0)) \cup Ids(get_all_content(2, 2)) = DOMAIN table

(***************************************************************************)
(* Properties of filter_content                                            *)
(***************************************************************************)
\* the arguments filter_content is asked with
OutputTypes == <<None, <<>>, <<"t", "e", "x", "t">>, <<"i", "m", "g">>,
                 <<"T", "E", "X", "T">>>>
SpaceIds == <<None, <<>>, <<"s", "1">>, <<"s", "2">>, <<"S", "1">>>>
Keywords == <<None, <<>>, <<"c", "a", "t">>, <<"C", "A", "T">>, <<"a", "t">>,
              <<"a", "T">>, <<"c", "_", "t">>, <<"c", "%", "t">>, <<"t", "a">>,
              <<"%">>, <<"x">>>>

\* w occurs in s as it is written
Occurs(w, s) ==
    \E o \in 0..(Len(s) - Len(w)) : \A i \in 1..Len(w) : s[o + i] = w[i]

\* w occurs in s when the case of ASCII letters is ignored
OccursIgnoringCase(w, s) ==
    \E o \in 0..(Len(s) - Len(w)) :
       \A i \in 1..Len(w) :
          \/ s[o + i] = w[i]
          \/ \E n \in 1..26 : {s[o + i], w[i]} = {UpperLetters[n], LowerLetters[n]}

HasWildcard(w) == \E i \in 1..Len(w) : w[i] \in {"%", "_"}

\* all the records filter_content finds
FilterAll(ot, sid, kw) ==
    Ids(filter_content(ot, sid, kw, Cardinality(DOMAIN table), 0))

\* C9 as claimed: filter_content returns exactly the records whose
\* output_type equals the output_type given, whose space_id equals the
\* space_id given and whose task_description contains the task_keyword given
\* as it is written (letter case kept, every character literal); a predicate
\* that is not given matches every record.
C9_KeywordIsLiteralSubstring ==
    \A a \in 1..Len(OutputTypes), b \in 1..Len(SpaceIds), c \in 1..Len(Keywords) :
       LET ot == OutputTypes[a]
           sid == SpaceIds[b]
           kw == Keywords[c]
       IN (ot # <<>> /\ sid # <<>> /\ kw # <<>>) =>
          FilterAll(ot, sid, kw) =
             {i \in DOMAIN table :
                /\ ot # None =>
                     table[i].output_type # None /\ table[i].output_type = ot
                /\ sid # None => table[i].space_id = sid
                /\ kw # None =>
                     /\ table[i].task_description # None
                     /\ Occurs(kw, table[i].task_description)}

\* C9 as the code has it: the predicates given (not None, not empty) are
\* combined with AND; output_type and space_id are compared for equality;
\* a task_keyword without % or _ matches when it occurs in task_description
\* with the case of ASCII letters ignored, and a task_keyword with % or _ is
\* a LIKE pattern in which they are wildcards; a predicate that is not given
\* or is empty matches every record.
C9_KeywordIsLikePattern ==
    \A a \in 1..Len(OutputTypes), b \in 1..Len(SpaceIds), c \in 1..Len(Keywords) :
       LET ot == OutputTypes[a]
           sid == SpaceIds[b]
           kw == Keywords[c]
       IN FilterAll(ot, sid, kw) =
             {i \in DOMAIN table :
                /\ (ot # None /\ ot # <<>>) =>
                     table[i].output_type # None /\ table[i].output_type = ot
                /\ (sid # None /\ sid # <<>>) => table[i].space_id = sid
                /\ (kw # None /\ kw # <<>>) =>
                     /\ table[i].task_description # None
                     /\ IF HasWildcard(kw)
                        THEN \E x, y \in 0..Len(table[i].task_description) :
                                Like(kw, SubSeq(table[i].task_description, x + 1, y))
                        ELSE OccursIgnoringCase(kw, table[i].task_description)}

\* two records whose descriptions differ in letter case only, of different
\* output_type: the keyword finds both, keyword and output_type together
\* find one
C9_Witness ==
    /\ Cardinality(FilterAll(None, None, <<"a", "T">>)) = 2
    /\ Cardinality(FilterAll(<<"i", "m", "g">>, <<"s", "1">>, <<"a", "T">>)) = 1
    /\ Cardinality(FilterAll(None, None, <<"c", "_", "t">>)) = 2

(***************************************************************************)
(* Rows whose parameters text is not JSON                                  *)
(***************************************************************************)
\* C10: a record whose stored parameters text does not decode as JSON is
\* still returned by get_content_by_id, get_all_content and filter_content,
\* with parameters None.
C10_UndecodableParametersReadAsNone ==
    \A i \in DOMAIN table :
       (table[i].parameters # None /\ ~json_loads(table[i].parameters).ok) =>
          /\ get_content_by_id(i) # NoRecord
          /\ get_content_by_id(i).parameters = PyNull
          /\ \E n \in 1..Cardinality(DOMAIN table) :
                LET r == get_all_content(-1, 0)[n]
                IN r.id = i /\ r.parameters = PyNull
          /\ \E n \in 1..Cardinality(DOMAIN table) :
                LET r == filter_content(None, None, None, -1, 0)[n]
                IN r.id = i /\ r.parameters = PyNull
(***************************************************************************)
(* Failing store operations                                                *)
(***************************************************************************)
FailMaxIds == 2

NextFail ==
    \/ add_content(RecordInputs, FailMaxIds)
    \/ update_content_notes
    \/ delete_content
    \/ add_content_error(RecordInputs)
    \/ update_content_notes_error
    \/ delete_content_error

SpecFail == Init /\ [][NextFail]_vars

\* C11: every store operation is all-or-nothing and reports its failure as a
\* returned value: an add_content that gives no id has raised nothing and
\* has left the table and the id sequence as they were, and an
\* update_content_notes or delete_content that returns False has left the
\* table as it was.
\* The code does not satisfy this: json.dumps(parameters) raises TypeError
\* for parameters that cannot be encoded, and add_content only catches
\* sqlite3.Error, so the failure leaves add_content as an exception.
C11_FailureIsReturnedStoreUnchanged ==
    [][/\ (Called("add_content") /\ last'.ret = PyNull) =>
            /\ ~last'.raised
            /\ table' = table /\ seq' = seq
       /\ ((Called("update_content_notes") \/ Called("delete_content"))
           /\ last'.ret = PyBool(FALSE)) =>
            table' = table /\ seq' = seq]_vars

(***************************************************************************)
(* Concurrent callers of the store.  Each caller runs one of add_content,  *)
(* update_content_notes, delete_content on a connection of its own:        *)
(*   with sqlite3.connect(DB_NAME) as conn:                                *)
(*       cursor.execute(...)   -- opens a transaction, takes the database  *)
(*                                write lock, changes the connection's view*)
(*       conn.commit()         -- publishes the view, releases the lock    *)
(*       return cursor.lastrowid / cursor.rowcount > 0                     *)
(* A statement that finds the write lock taken waits for it; when the wait *)
(* exceeds the connection's busy timeout it raises sqlite3.OperationalError*)
(* (database is locked), which the except branch turns into None / False.  *)
(* The callers are all inside their functions from the start: a call that  *)
(* begins later is a caller that has not executed its statement yet.       *)
(***************************************************************************)
ConcCallers == 3
ConcMaxId == 1

Callers == 1..ConcCallers

ConcInput ==
    Input(<<"s", "1">>, <<"c", "a", "t">>, <<"t", "e", "x", "t">>, <<"d">>,
          PyDict(<<>>), None)

\* the calls a caller can be about to make
Calls ==
    {[op |-> "add_content", id |-> 0]}
    \cup {[op |-> o, id |-> i] :
            o \in {"update_content_notes", "delete_content"},
            i \in 1..ConcMaxId}

Caller(call) ==
    [op |-> call.op, id |-> call.id, pc |-> "called", nth |-> 0,
     view |-> <<>>, ret |-> PyNull, error |-> FALSE]

\* what a call returns when sqlite3.Error is caught
ErrorReturn(op) == IF op = "add_content" THEN PyNull ELSE PyBool(FALSE)

\* the effect of the statement of caller c on the database db = [table, seq]
Statement(db, c) ==
    IF c.op = "add_content"
    THEN LET id == Max(DOMAIN db.table \cup {db.seq}) + 1
             row == [id |-> id,
                     space_id |-> ConcInput.space_id,
                     task_description |-> ConcInput.task_description,
                     timestamp |-> now,
                     output_type |-> ConcInput.output_type,
                     output_data |-> ConcInput.output_data,
                     parameters |-> json_dumps(ConcInput.parameters).text,
                     notes |-> ConcInput.notes]
         IN [table |-> [i \in DOMAIN db.table \cup {id} |->
                          IF i = id THEN row ELSE db.table[i]],
             seq |-> id,
             ret |-> PyInt(id)]
    ELSE IF c.op = "update_content_notes"
    THEN [table |-> [i \in DOMAIN db.table |->
                       IF i = c.id THEN [db.table[i] EXCEPT !.notes = <<"m">>]
                       ELSE db.table[i]],
          seq |-> db.seq,
          ret |-> PyBool(c.id \in DOMAIN db.table)]
    ELSE [table |-> [i \in DOMAIN db.table \ {c.id} |-> db.table[i]],
          seq |-> db.seq,
          ret |-> PyBool(c.id \in DOMAIN db.table)]

\* a statement that does not wait for the write lock
WriteLocked_never == FALSE

\* some connection has executed its statement and not yet committed
WriteLocked == \E j \in Callers : conn[j].pc = "executed"

\* the callers that have returned
Returned == {i \in Callers : conn[i].pc = "done"}

\* cursor.execute: the statement runs in the caller's transaction
execute(i) ==
    /\ conn[i].pc = "called"
    /\ ~WriteLocked
    /\ LET st == Statement([table |-> table, seq |-> seq], conn[i])
       IN conn' = [conn EXCEPT ![i].pc = "executed",
                               ![i].view = [table |-> st.table, seq |-> st.seq],
                               ![i].ret = st.ret]
    /\ UNCHANGED <<store_vars, fs, cli, gui, job, local_vars>>

\* conn.commit and the return
commit(i) ==
    /\ conn[i].pc = "executed"
    /\ table' = conn[i].view.table
    /\ seq' = conn[i].view.seq
    /\ issued' = IF conn[i].op = "add_content"
                 THEN Append(issued, conn[i].view.table[conn[i].ret.v])
                 ELSE issued
    /\ conn' = [conn EXCEPT ![i].pc = "done", ![i].view = <<>>,
                            ![i].nth = Cardinality(Returned) + 1]
    /\ UNCHANGED <<now, tie_order, last, fs, cli, gui, job, local_vars>>

\* the statement waited for the write lock longer than the busy timeout
busy_timeout(i) ==
    /\ conn[i].pc = "called"
    /\ WriteLocked
    /\ conn' = [conn EXCEPT ![i].pc = "done", ![i].error = TRUE,
                            ![i].nth = Cardinality(Returned) + 1,
                            ![i].ret = ErrorReturn(conn[i].op)]
    /\ UNCHANGED <<store_vars, fs, cli, gui, job, local_vars>>

InitConc ==
    /\ init_db
    /\ fs = {} /\ cli = NoTokens /\ gui = NoForm /\ job = NoJob
    /\ LocalIdle
    /\ conn \in [Callers -> {Caller(c) : c \in Calls}]

NextConc ==
    \/ \E i \in Callers : execute(i)
    \/ \E i \in Callers : commit(i)
    \/ \E i \in Callers : busy_timeout(i)

SpecConc == InitConc /\ [][NextConc]_vars

\* the calls that have returned, made one at a time in the order in which
\* they returned, on the database db; a call that met sqlite3.Error changes
\* nothing
RECURSIVE OneAtATime(_, _, _)
OneAtATime(db, rets, k) ==
    IF k > Cardinality(Returned) THEN [db |-> db, rets |-> rets]
    ELSE LET i == CHOOSE j \in Returned : conn[j].nth = k
             c == conn[i]
         IN IF c.error
            THEN OneAtATime(db, [rets EXCEPT ![i] = ErrorReturn(c.op)], k + 1)
            ELSE LET st == Statement(db, c)
                 IN OneAtATime([table |-> st.table, seq |-> st.seq],
                               [rets EXCEPT ![i] = st.ret], k + 1)

FileRef(path) == [t |-> "file", v |-> path]

\* the position of the last "=" of a token, 0 when it has none
Find_last(s, c, p) ==
    IF \A q \in p..Len(s) : s[q] # c THEN 0
    ELSE CHOOSE q \in p..Len(s) :
           s[q] = c /\ \A o \in (q + 1)..Len(s) : s[o] # c

\* the position of the first "=" of a token, 0 when it has none
RECURSIVE Find(_, _, _)
Find(s, c, p) == IF p > Len(s) THEN 0
                 ELSE IF s[p] = c THEN p
                 ELSE Find(s, c, p + 1)

EndsWith(s, ext) ==
    /\ Len(ext) <= Len(s)
    /\ \A i \in 1..Len(ext) : s[Len(s) - Len(ext) + i] = ext[i]

Extensions == <<
    <<".", "p", "n", "g">>,
    <<".", "j", "p", "g">>,
    <<".", "j", "p", "e", "g">>,
    <<".", "g", "i", "f">>,
    <<".", "w", "a", "v">>,
    <<".", "m", "p", "3">>,
    <<".", "t", "x", "t">>,
    <<".", "j", "s", "o", "n">>,
    <<".", "c", "s", "v">>,
    <<".", "g", "l", "b">>,
    <<".", "g", "l", "t", "f">>,
    <<".", "m", "p", "4">>,
    <<".", "a", "v", "i">>,
    <<".", "m", "o", "v">>
>>

\* any(value.endswith(ext) for ext in [...])
HasFileExtension(value) ==
    \E n \in 1..Len(Extensions) : EndsWith(value, Extensions[n])

\* a path test that finds every path
Exists_always(value) == TRUE

\* os.path.exists(value)
Exists(value) == value \in fs

\* the state of the loop: both outputs, the warnings printed, and whether an
\* exception has left the function
NoArgs == [args_out |-> <<>>, kwargs_out |-> <<>>, warnings |-> <<>>,
           raised |-> ""]

\* a value that is never decoded
Decoded_verbatim(value) == [raised |-> "", v |-> PyStr(value)]

\* json.loads of a value, the value itself on JSONDecodeError
Decoded(value) ==
    Only({IF r.ok THEN [raised |-> "", v |-> r.v]
          ELSE IF r.err = "JSONDecodeError"
               THEN [raised |-> "", v |-> PyStr(value)]
          ELSE [raised |-> r.err, v |-> PyNull] :
          r \in {json_loads(value)}})

\* one turn of the loop over params_list
BindItem(acc, item) ==
    LET eq == Find(item, "=", 1)
        key == SubSeq(item, 1, eq - 1)
        value == SubSeq(item, eq + 1, Len(item))
    IN IF eq > 0
       THEN IF HasFileExtension(value)
            THEN IF Exists(value)
                 THEN [acc EXCEPT !.kwargs_out = DictSet(@, key, FileRef(value))]
                 ELSE [acc EXCEPT !.kwargs_out = DictSet(@, key, PyStr(value)),
                                  !.warnings = Append(@, key)]
            ELSE Only({IF r.raised # "" THEN [acc EXCEPT !.raised = r.raised]
                       ELSE [acc EXCEPT !.kwargs_out = DictSet(@, key, r.v)] :
                       r \in {Decoded(value)}})
       ELSE Only({IF r.raised # "" THEN [acc EXCEPT !.raised = r.raised]
                  ELSE [acc EXCEPT !.args_out = Append(@, r.v)] :
                  r \in {Decoded(item)}})

RECURSIVE BindItems(_, _)
BindItems(acc, items) ==
    IF items = <<>> \/ acc.raised # "" THEN acc
    ELSE Only({BindItems(next, Tail(items)) :
               next \in {BindItem(acc, Head(items))}})

\* parse_run_params(params_list); params_list None and [] are both <<>>
parse_run_params(params_list) == BindItems(NoArgs, params_list)

\* the tokens of the command line
Hello == <<"H", "e", "l", "l", "o">>
PhotoPng == <<"p", "h", "o", "t", "o", ".", "p", "n", "g">>
NotesTxt == <<"n", "o", "t", "e", "s", ".", "t", "x", "t">>

\* a token nested deeper than the scanner's recursion check allows
DeepToken == [i \in 1..(RecursionLimit + 1) |-> "["]

Tokens == <<
    <<"t", "e", "x", "t", "=", "H", "e", "l", "l", "o">>,
    <<"5", "0">>,
    <<"f", "l", "a", "g", "=", "t", "r", "u", "e">>,
    <<"i", "m", "a", "g", "e", "=", "p", "h", "o", "t", "o", ".", "p", "n", "g">>,
    <<"p", "h", "o", "t", "o", ".", "p", "n", "g">>,
    <<>>,
    <<"=">>,
    <<"a", "=", "b", "=", "c">>,
    <<"t", "e", "x", "t", "=">>,
    <<"n", "=", "[", "1", ",", " ", "-", "2", ".", "5", "]">>,
    <<"d", "o", "c", "=", "n", "o", "t", "e", "s", ".", "t", "x", "t">>,
    DeepToken,
    <<"\"", "x", "=", "1", "=", "2", "\"">>
>>

MaxTokens == 3

Paths == {PhotoPng, NotesTxt}

\* handle_run_predict / handle_run_submit bind the tokens of a command: the
\* command of the step before with one more token
bind_tokens(tokens, maxTokens) ==
    \E n \in 1..Len(tokens) :
      LET params_list == Append(cli.params_list, tokens[n])
      IN /\ Len(cli.params_list) < maxTokens
         /\ \E r \in {parse_run_params(params_list)} :
              cli' = [NoTokens EXCEPT
                        !.pc = "parsed", !.params_list = params_list,
                        !.args_out = r.args_out, !.kwargs_out = r.kwargs_out,
                        !.warnings = r.warnings, !.raised = r.raised]
         /\ UNCHANGED <<store_vars, fs, gui, job, conn, local_vars>>

bind_params == bind_tokens(Tokens, MaxTokens)

\* the local files are those that exist when the command is given
InitCli ==
    /\ init_db
    /\ fs \in SUBSET Paths
    /\ cli = NoTokens /\ gui = NoForm /\ job = NoJob /\ conn = NoCallers
    /\ LocalIdle

NextCli == bind_params

SpecCli == InitCli /\ [][NextCli]_vars

\* the tokens of a command without "=", in the order given
BareTokens(l) == SelectSeq(l, LAMBDA t : Find(t, "=", 1) = 0)

KeyOf(t) == SubSeq(t, 1, Find(t, "=", 1) - 1)
ValueOf(t) == SubSeq(t, Find(t, "=", 1) + 1, Len(t))

\* the last key=value token of the command with the key k
LastWithKey(l, k) ==
    CHOOSE n \in 1..Len(l) :
      /\ Find(l[n], "=", 1) > 0 /\ KeyOf(l[n]) = k
      /\ \A m \in (n + 1)..Len(l) :
           ~(Find(l[m], "=", 1) > 0 /\ KeyOf(l[m]) = k)

\* a text as the JSON literal it is, or as itself
AsLiteral(value) ==
    IF json_loads(value).ok THEN json_loads(value).v ELSE PyStr(value)

Bound == cli.pc = "parsed" /\ cli.raised = ""

\* C13: parse_run_params binds each bare token to a positional argument, in
\* the order given, and each key=value token to a keyword argument under
\* its key (the last token of a key wins), each value decoded as a JSON
\* literal when it is one; ["text=Hello", "50", "flag=true"] gives [50] and
\* {"text": "Hello", "flag": true}.
C13_TokensBecomeArguments ==
    Bound =>
      LET l == cli.params_list
          bare == BareTokens(l)
      IN /\ Len(cli.args_out) = Len(bare)
         /\ \A k \in 1..Len(bare) : cli.args_out[k] = AsLiteral(bare[k])
         /\ \A n \in 1..Len(l) :
              Find(l[n], "=", 1) > 0 =>
                \E m \in 1..Len(cli.kwargs_out) :
                  cli.kwargs_out[m][1] = KeyOf(l[n])
         /\ \A m \in 1..Len(cli.kwargs_out) :
              /\ \E n \in 1..Len(l) : /\ Find(l[n], "=", 1) > 0
                                      /\ KeyOf(l[n]) = cli.kwargs_out[m][1]
              /\ \A o \in 1..Len(cli.kwargs_out) :
                   o # m => cli.kwargs_out[o][1] # cli.kwargs_out[m][1]
              /\ LET value == ValueOf(l[LastWithKey(l, cli.kwargs_out[m][1])])
                 IN ~HasFileExtension(value) =>
                      cli.kwargs_out[m][2] = AsLiteral(value)
         /\ l = <<Tokens[1], Tokens[2], Tokens[3]>> =>
              /\ cli.args_out = <<PyInt(50)>>
              /\ cli.kwargs_out = << <<(<<"t", "e", "x", "t">>), PyStr(Hello)>>,
                                     <<(<<"f", "l", "a", "g">>), PyBool(TRUE)>> >>

\* the command of the example has been bound
C13_Witness ==
    /\ Bound
    /\ cli.params_list = <<Tokens[1], Tokens[2], Tokens[3]>>
    /\ cli.args_out = <<PyInt(50)>>
    /\ Len(cli.kwargs_out) = 2

\* C14: parse_run_params raises no error, whatever the tokens.
\* The code does not satisfy this: json.loads raises RecursionError for a
\* token nested deeper than the scanner's recursion check allows, and the
\* loop only catches json.JSONDecodeError.
C14_BindingNeverRaises ==
    cli.pc = "parsed" => cli.raised = ""

\* C15: a key=value token whose value ends in a recognised extension is
\* bound under its key to the file reference of the path when the path
\* exists, and to the value as a string, with a warning for that key, when
\* it does not.
C15_KeywordFileRule ==
    Bound =>
      \A m \in 1..Len(cli.kwargs_out) :
        LET key == cli.kwargs_out[m][1]
            value == ValueOf(cli.params_list[LastWithKey(cli.params_list, key)])
        IN HasFileExtension(value) =>
             IF value \in fs
             THEN cli.kwargs_out[m][2] = FileRef(value)
             ELSE /\ cli.kwargs_out[m][2] = PyStr(value)
                  /\ \E w \in 1..Len(cli.warnings) : cli.warnings[w] = key

\* photo.png exists and notes.txt does not: image is a file reference, doc
\* is the string, and the warning is for doc
C15_Witness ==
    /\ Bound
    /\ fs = {PhotoPng}
    /\ cli.params_list = <<Tokens[4], Tokens[11]>>
    /\ cli.kwargs_out = << <<(<<"i", "m", "a", "g", "e">>), FileRef(PhotoPng)>>,
                           <<(<<"d", "o", "c">>), PyStr(NotesTxt)>> >>
    /\ cli.warnings = <<(<<"d", "o", "c">>)>>

\* C16: the file rule applies to bare tokens too: a bare token that ends in
\* a recognised extension and names an existing path is bound to the file
\* reference of the path.
\* The code does not satisfy this: the branch of the bare tokens only tries
\* json.loads and keeps the string, so an existing photo.png is bound to
\* the string "photo.png".
C16_FileRuleForBareTokens ==
    Bound =>
      LET bare == BareTokens(cli.params_list)
      IN /\ Len(cli.args_out) = Len(bare)
         /\ \A k \in 1..Len(bare) :
              (HasFileExtension(bare[k]) /\ bare[k] \in fs) =>
                  cli.args_out[k] = FileRef(bare[k])

(***************************************************************************)
(* gui.py: the execution form.  populate_execution_inputs builds one input *)
(* widget per parameter of the endpoint's schema, the user edits the       *)
(* widgets, and handle_exec_run_space collects one argument per parameter  *)
(* and calls the endpoint.                                                 *)
(***************************************************************************)
\* an optional entry of a parameter's dict: <<>> when the key is absent
Absent == <<>>
Some(x) == <<x>>
Get(opt, default) == IF opt = Absent THEN default ELSE opt[1]

Param(name, label, type, python_type, minimum, maximum, value) ==
    [name |-> name, label |-> label, type |-> type,
     python_type |-> python_type, minimum |-> minimum, maximum |-> maximum,
     value |-> value]

\* the parameters an endpoint's schema can declare
SchemaParams == <<
    Param(Some(<<"n">>), Some(<<"N">>), "number", "int",
          Some(1), Some(100), Some(150)),
    Param(Some(<<"s">>), Absent, "slider", "int",
          Some(1), Some(100), Some(50)),
    Param(Absent, Some(<<"x">>), "number", "float", Absent, Absent, Absent),
    Param(Some(<<"i">>), Some(<<"I">>), "image", "str", Absent, Absent, Absent),
    Param(Absent, Absent, "textbox", "str", Absent, Absent, Absent)
>>

MaxParams == 2

\* the values a user can try to give a numeric widget
RawValues == {50, 150}

GuiPaths == {PhotoPng}

\* QSpinBox / QDoubleSpinBox / QSlider keep their value inside their range:
\* setValue and the editor adjust a value outside it to the nearest bound
Clamp(minimum, maximum, x) ==
    IF x < minimum THEN minimum ELSE IF x > maximum THEN maximum ELSE x

\* f"param_{i}"
ParamI(i) == <<"p", "a", "r", "a", "m", "_">> \o NatText(i)

\* the key under which populate_execution_inputs stores the widget of the
\* i-th parameter (i from 0): param.get("name", param.get("label", param_i))
StoredName(param, i) == Get(param.name, Get(param.label, ParamI(i)))

\* the key handle_exec_run_space looks up: get("name", get("label")), None
\* when the parameter has neither
LookupName(param) == Get(param.name, Get(param.label, None))

\* the entry of dynamic_input_widgets for a parameter; raw is the value last
\* given to a numeric widget, by the schema's default or by the user
WidgetFor(param) ==
    IF param.type = "number"
    THEN IF param.python_type = "int"
         THEN LET lo == Get(param.minimum, -1000000)
                  hi == Get(param.maximum, 1000000)
              IN [widget |-> "QSpinBox", type |-> "number",
                  minimum |-> lo, maximum |-> hi,
                  value |-> Clamp(lo, hi, Get(param.value, 0)),
                  raw |-> Get(param.value, 0),
                  text |-> <<>>, selected_file_path |-> None]
         ELSE LET lo == Get(param.minimum, -1000000)
                  hi == Get(param.maximum, 1000000)
              IN [widget |-> "QDoubleSpinBox", type |-> "number",
                  minimum |-> lo, maximum |-> hi,
                  value |-> Clamp(lo, hi, Get(param.value, 0)),
                  raw |-> Get(param.value, 0),
                  text |-> <<>>, selected_file_path |-> None]
    ELSE IF param.type = "slider"
    THEN LET lo == Get(param.minimum, 0)
             hi == Get(param.maximum, 100)
         IN [widget |-> "QSlider", type |-> "slider",
             minimum |-> lo, maximum |-> hi,
             value |-> Clamp(lo, hi, Get(param.value, Get(param.minimum, 0))),
             raw |-> Get(param.value, Get(param.minimum, 0)),
             text |-> <<>>, selected_file_path |-> None]
    ELSE IF param.type = "image"
    THEN [widget |-> "QWidget", type |-> "filepath", minimum |-> 0,
          maximum |-> 0, value |-> 0, raw |-> 0, text |-> <<>>,
          selected_file_path |-> None]
    ELSE [widget |-> "QLineEdit", type |-> "textbox", minimum |-> 0,
          maximum |-> 0, value |-> 0, raw |-> 0, text |-> <<>>,
          selected_file_path |-> None]

\* QSpinBox.setValue(float(default_value)): the binding may refuse a float
\* where the C++ signature wants an int (TypeError)
SetsFloatOnSpinBox(param) ==
    param.type = "number" /\ param.python_type = "int" /\ param.value # Absent

\* the loop of populate_execution_inputs from the i-th parameter (i from 1);
\* strict_int is whether the binding raises TypeError for the float
RECURSIVE Populate(_, _, _, _)
Populate(parameters, i, widgets, strict_int) ==
    IF i > Len(parameters) THEN [widgets |-> widgets, raised |-> ""]
    ELSE IF strict_int /\ SetsFloatOnSpinBox(parameters[i])
         THEN [widgets |-> widgets, raised |-> "TypeError"]
    ELSE Populate(parameters, i + 1,
                  DictSet(widgets, StoredName(parameters[i], i - 1),
                          WidgetFor(parameters[i])),
                  strict_int)

NoRun == [collected |-> <<>>, warnings |-> <<>>, raised |-> "",
          invoked |-> FALSE, args |-> <<>>, error |-> FALSE]

\* handle_exec_fetch_api has the schema and calls populate_execution_inputs;
\* an exception there leaves no loaded schema and a disabled run button
populate_execution_inputs ==
    \E k \in 1..MaxParams, strict_int \in BOOLEAN :
    \E pick \in [1..k -> 1..Len(SchemaParams)] :
      LET parameters == [j \in 1..k |-> SchemaParams[pick[j]]]
          r == Populate(parameters, 1, <<>>, strict_int)
      IN /\ gui.pc = "none"
         /\ (strict_int => \E j \in 1..k : SetsFloatOnSpinBox(parameters[j]))
         /\ gui' = [pc |-> IF r.raised = "" THEN "loaded" ELSE "load_error",
                    parameters |-> parameters, widgets |-> r.widgets,
                    run |-> NoRun]
         /\ UNCHANGED <<store_vars, fs, cli, job, conn, local_vars>>

Slot(widgets, name) == CHOOSE n \in 1..Len(widgets) : widgets[n][1] = name

HasWidget(widgets, name) == \E n \in 1..Len(widgets) : widgets[n][1] = name

\* the user gives a numeric widget a value
set_value ==
    \E n \in 1..Len(gui.widgets), x \in RawValues :
      LET w == gui.widgets[n][2]
      IN /\ gui.pc \in {"loaded", "ran", "failed"}
         /\ w.widget \in {"QSpinBox", "QDoubleSpinBox", "QSlider"}
         /\ gui' = [gui EXCEPT
                      !.widgets[n][2].value = Clamp(w.minimum, w.maximum, x),
                      !.widgets[n][2].raw = x,
                      !.run = NoRun, !.pc = "loaded"]
         /\ UNCHANGED <<store_vars, fs, cli, job, conn, local_vars>>

\* the user picks a file in the dialog (an existing one), or cancels it
handle_exec_browse_file ==
    \E n \in 1..Len(gui.widgets), file_path \in fs \cup {None} :
      /\ gui.pc \in {"loaded", "ran", "failed"}
      /\ gui.widgets[n][2].type = "filepath"
      /\ gui' = [gui EXCEPT !.widgets[n][2].selected_file_path = file_path,
                            !.run = NoRun, !.pc = "loaded"]
      /\ UNCHANGED <<store_vars, fs, cli, job, conn, local_vars>>

\* a local file is created or removed
touch ==
    \E path \in GuiPaths :
      /\ fs' = IF path \in fs THEN fs \ {path} ELSE fs \cup {path}
      /\ UNCHANGED <<store_vars, cli, gui, job, conn, local_vars>>

\* gradio_client.handle_file on a local path: the file reference, or
\* ValueError when the path does not exist
handle_file(path) ==
    IF path \in fs THEN [raised |-> "", v |-> FileRef(path)]
    ELSE [raised |-> "ValueError", v |-> PyNull]

\* the value read from the widget of a parameter
WidgetValue(info) ==
    IF info.type = "filepath"
    THEN IF Truthy(info.selected_file_path)
         THEN handle_file(info.selected_file_path)
         ELSE [raised |-> "", v |-> PyNull]
    ELSE IF info.widget = "QLineEdit"
    THEN [raised |-> "", v |-> PyStr(info.text)]
    ELSE IF info.widget = "QDoubleSpinBox"
    THEN [raised |-> "", v |-> PyFloat(info.value, <<0>>)]
    ELSE [raised |-> "", v |-> PyInt(info.value)]

\* a loop that sends None for a parameter whose value cannot be read and
\* goes on
CollectParams_continue(run, param) ==
    LET param_name == LookupName(param)
    IN IF ~HasWidget(gui.widgets, param_name)
       THEN [run EXCEPT !.warnings = Append(@, param_name),
                        !.collected = Append(@, PyNull)]
       ELSE LET r == WidgetValue(gui.widgets[Slot(gui.widgets, param_name)][2])
            IN [run EXCEPT !.collected = Append(@, r.v)]

\* a loop that leaves out a parameter that has no widget
CollectParams_skip(run, param) ==
    LET param_name == LookupName(param)
    IN IF ~HasWidget(gui.widgets, param_name) THEN run
       ELSE LET r == WidgetValue(gui.widgets[Slot(gui.widgets, param_name)][2])
            IN IF r.raised # "" THEN [run EXCEPT !.raised = r.raised]
               ELSE [run EXCEPT !.collected = Append(@, r.v)]

\* one turn of the loop over api_parameters
CollectParams(run, param) ==
    LET param_name == LookupName(param)
    IN IF ~HasWidget(gui.widgets, param_name)
       THEN [run EXCEPT !.warnings = Append(@, param_name),
                        !.collected = Append(@, PyNull)]
       ELSE LET r == WidgetValue(gui.widgets[Slot(gui.widgets, param_name)][2])
            IN IF r.raised # "" THEN [run EXCEPT !.raised = r.raised]
               ELSE [run EXCEPT !.collected = Append(@, r.v)]

RECURSIVE CollectAll(_, _)
CollectAll(run, api_parameters) ==
    IF api_parameters = <<>> \/ run.raised # "" THEN run
    ELSE CollectAll(CollectParams(run, Head(api_parameters)),
                    Tail(api_parameters))

\* space_runner.execute_space_endpoint(space_id, endpoint_name, *args): the
\* endpoint is invoked with the arguments in the order given and the call
\* returns (result_data, output_type, error_msg)
execute_space_endpoint(run, args, error) ==
    [run EXCEPT !.invoked = TRUE, !.args = args, !.error = error]

handle_exec_run_space ==
    \E error \in BOOLEAN :
      LET run == CollectAll(NoRun, gui.parameters)
      IN /\ gui.pc \in {"loaded", "ran", "failed"}
         /\ IF run.raised # ""
            THEN \* except Exception: "Execution Failed"
                 /\ ~error
                 /\ gui' = [gui EXCEPT !.pc = "failed", !.run = run]
            ELSE gui' = [gui EXCEPT
                           !.pc = "ran",
                           !.run = execute_space_endpoint(run, run.collected,
                                                          error)]
         /\ UNCHANGED <<store_vars, fs, cli, job, conn, local_vars>>

InitGui ==
    /\ init_db
    /\ fs \in SUBSET GuiPaths
    /\ cli = NoTokens /\ gui = NoForm /\ job = NoJob /\ conn = NoCallers
    /\ LocalIdle

NextGui ==
    \/ populate_execution_inputs
    \/ set_value
    \/ handle_exec_browse_file
    \/ touch
    \/ handle_exec_run_space

SpecGui == InitGui /\ [][NextGui]_vars

\* a run has just been made
HasRun == gui.pc \in {"ran", "failed"}

\* the widget handle_exec_run_space reads for the k-th parameter
InfoOf(k) ==
    gui.widgets[Slot(gui.widgets, LookupName(gui.parameters[k]))][2]

Numeric(k) ==
    /\ HasWidget(gui.widgets, LookupName(gui.parameters[k]))
    /\ InfoOf(k).widget \in {"QSpinBox", "QDoubleSpinBox", "QSlider"}

\* C17: a numeric parameter that declares a minimum or a maximum is never
\* bound to a value other than the one given: a run in which the value
\* given to such a parameter is outside its range fails and does not invoke
\* the endpoint, and a value inside the range is passed as given.
\* The code does not satisfy this: the value is held by a QSpinBox /
\* QDoubleSpinBox / QSlider whose range is set from minimum and maximum, the
\* widget adjusts 150 to 100, and the run passes 100 without any error.
C17_OutOfRangeIsRejected ==
    HasRun =>
      \A k \in 1..Len(gui.parameters) :
        (/\ Numeric(k)
         /\ (gui.parameters[k].minimum # Absent
             \/ gui.parameters[k].maximum # Absent)) =>
          IF \/ InfoOf(k).raw < Get(gui.parameters[k].minimum, InfoOf(k).raw)
             \/ InfoOf(k).raw > Get(gui.parameters[k].maximum, InfoOf(k).raw)
          THEN ~gui.run.invoked /\ gui.run.raised # ""
          ELSE gui.run.invoked => gui.run.args[k].v = InfoOf(k).raw

\* what the widget of a parameter holds when the run is made: the number,
\* the text, the reference of the selected file, None when none is selected
Held(info) ==
    IF info.type = "filepath"
    THEN IF info.selected_file_path = None THEN PyNull
         ELSE FileRef(info.selected_file_path)
    ELSE IF info.widget = "QLineEdit" THEN PyStr(info.text)
    ELSE IF info.widget = "QDoubleSpinBox" THEN PyFloat(info.value, <<0>>)
    ELSE PyInt(info.value)

WouldRaise ==
    \E k \in 1..Len(gui.parameters) :
      /\ HasWidget(gui.widgets, LookupName(gui.parameters[k]))
      /\ InfoOf(k).type = "filepath"
      /\ Truthy(InfoOf(k).selected_file_path)
      /\ InfoOf(k).selected_file_path \notin fs

\* C19: a run in which the value of some parameter cannot be bound (the
\* selected file is gone, handle_file raises) is aborted as a whole: the
\* endpoint is not invoked, with no argument list at all; and every run
\* that invokes the endpoint has bound every parameter.
C19_FailedBindingInvokesNothing ==
    [][(gui' # gui /\ gui'.pc \in {"ran", "failed"}) =>
         /\ WouldRaise =>
              /\ gui'.pc = "failed"
              /\ ~gui'.run.invoked /\ gui'.run.args = <<>>
         /\ gui'.run.invoked =>
              /\ ~WouldRaise
              /\ gui'.run.args = gui'.run.collected
              /\ Len(gui'.run.collected) = Len(gui.parameters)]_vars

\* the slider was read, the file of the second parameter was gone, and the
\* endpoint was not invoked
C19_Witness ==
    /\ gui.pc = "failed"
    /\ gui.parameters = <<SchemaParams[2], SchemaParams[4]>>
    /\ gui.run.raised = "ValueError"
    /\ gui.run.collected = <<PyInt(50)>>
    /\ ~gui.run.invoked

(***************************************************************************)
(* space_runner.py: a submitted job and the calls that poll it             *)
(***************************************************************************)
MaxPolls == 3

\* what a completed job can hold
JobValues == <<PyNull, PyStr(<<"r">>)>>

NoPoll == [op |-> "none", timeout |-> FALSE, cause |-> "", ret |-> PyNull,
           raised |-> "", printed |-> ""]

\* run_space_submit: client.submit returns the Job, queued on the remote
\* side; when the client cannot be created or submit raises, the caller
\* gets None in place of a Job
run_space_submit ==
    \E ok \in BOOLEAN :
      /\ job.pc = "none"
      /\ job' = [pc |-> IF ok THEN "QUEUED" ELSE "no job", value |-> PyNull,
                 polls |-> 0, last |-> NoPoll]
      /\ UNCHANGED <<store_vars, fs, cli, gui, conn, local_vars>>

Terminal == {"COMPLETED", "FAILED"}

\* a member of gradio_client's Status enumeration
Status(name) == [t |-> "status", v |-> name]

\* the remote side works on the job
remote_step ==
    /\ job.pc \in {"QUEUED", "PROCESSING"}
    /\ \/ job.pc = "QUEUED" /\ job' = [job EXCEPT !.pc = "PROCESSING"]
       \/ job.pc = "PROCESSING" /\ job' = [job EXCEPT !.pc = "FAILED"]
       \/ \E n \in 1..Len(JobValues) :
            /\ job.pc = "PROCESSING"
            /\ job' = [job EXCEPT !.pc = "COMPLETED", !.value = JobValues[n]]
    /\ UNCHANGED <<store_vars, fs, cli, gui, conn, local_vars>>

\* get_job_status(job): job.status() may raise (the connection to the
\* remote side is lost), which is caught
get_job_status ==
    \E raises \in BOOLEAN :
      /\ job.pc # "none"
      /\ job.polls < MaxPolls
      /\ job.pc = "no job" => ~raises
      /\ job' = [job EXCEPT
                   !.polls = @ + 1,
                   !.last = IF job.pc = "no job"
                            THEN [NoPoll EXCEPT !.op = "get_job_status",
                                                !.cause = "not a Job",
                                                !.printed = "Error: Invalid Job object provided."]
                            ELSE IF raises
                            THEN [NoPoll EXCEPT !.op = "get_job_status",
                                                !.cause = "error",
                                                !.printed = "Error getting job status"]
                            ELSE [NoPoll EXCEPT !.op = "get_job_status",
                                                !.cause = job.pc,
                                                !.ret = Status(job.pc)]]
      /\ UNCHANGED <<store_vars, fs, cli, gui, conn, local_vars>>

\* the exception classes Job.result raises for a failed job: RuntimeError,
\* or another Exception the library wraps the remote error in
FailureClasses == {"RuntimeError", "Exception"}

\* what get_job_result makes of the end of job.result(timeout): cause is
\* COMPLETED, FAILED or TIMEOUT, cls the exception class raised for FAILED
ResultOf_reraise(cause, value, cls) ==
    IF cause = "COMPLETED"
    THEN [ret |-> value, raised |-> "", printed |-> ""]
    ELSE IF cause = "TIMEOUT"
    THEN [ret |-> PyNull, raised |-> "TimeoutError", printed |-> ""]
    ELSE [ret |-> PyNull, raised |-> cls, printed |-> ""]

ResultOf(cause, value, cls) ==
    IF cause = "COMPLETED"
    THEN [ret |-> value, raised |-> "", printed |-> ""]
    ELSE IF cause = "TIMEOUT"
    THEN [ret |-> PyNull, raised |-> "",
          printed |-> "Timeout waiting for job result."]
    ELSE IF cls = "RuntimeError"
    THEN [ret |-> PyNull, raised |-> "",
          printed |-> "Runtime error getting job result"]
    ELSE [ret |-> PyNull, raised |-> "",
          printed |-> "Error getting job result"]

\* get_job_result(job, timeout): job.result waits until the job has ended
\* or, with a timeout, until the deadline; the job may end during the wait
get_job_result ==
    \E timeout \in BOOLEAN, cls \in FailureClasses, n \in 1..Len(JobValues),
       ends \in {"COMPLETED", "FAILED", "TIMEOUT"} :
      /\ job.pc # "none"
      /\ job.polls < MaxPolls
      /\ IF job.pc = "no job"
         THEN /\ ends = "TIMEOUT" /\ cls = "RuntimeError" /\ n = 1
              /\ job' = [job EXCEPT
                           !.polls = @ + 1,
                           !.last = [NoPoll EXCEPT
                                       !.op = "get_job_result",
                                       !.timeout = timeout,
                                       !.cause = "not a Job",
                                       !.printed = "Error: Invalid Job object provided."]]
         ELSE /\ job.pc \in Terminal => ends = job.pc
              /\ job.pc = "COMPLETED" => job.value = JobValues[n]
              /\ ends # "COMPLETED" => n = 1
              /\ ends # "FAILED" => cls = "RuntimeError"
              /\ ends = "TIMEOUT" => timeout
              /\ LET value == IF ends = "COMPLETED" THEN JobValues[n]
                              ELSE job.value
                     r == ResultOf(ends, value, cls)
                 IN job' = [job EXCEPT
                              !.pc = IF ends = "TIMEOUT" THEN job.pc ELSE ends,
                              !.value = value,
                              !.polls = @ + 1,
                              !.last = [op |-> "get_job_result",
                                        timeout |-> timeout, cause |-> ends,
                                        ret |-> r.ret, raised |-> r.raised,
                                        printed |-> r.printed]]
      /\ UNCHANGED <<store_vars, fs, cli, gui, conn, local_vars>>

NextJob ==
    \/ run_space_submit
    \/ remote_step
    \/ get_job_status
    \/ get_job_result

SpecJob == Init /\ [][NextJob]_vars

\* what the caller of get_job_result has in hand
Outcome ==
    IF job.last.raised # "" THEN job.last.raised
    ELSE IF job.last.ret = PyNull THEN "None"
    ELSE "value"

JobState ==
    IF job.last.op = "get_job_result" /\ job.last.cause = "TIMEOUT"
    THEN "TIMEOUT"
    ELSE job.pc

\* C21 as stated: COMPLETED, FAILED and TIMEOUT are absorbing: once the job
\* is in one of them, no step and no later get_job_status or get_job_result
\* call, with or without a timeout, finds or makes another state, and a
\* later get_job_result gives the caller what the earlier one gave
C21_TerminalStatesAreAbsorbing ==
    [][(JobState \in {"COMPLETED", "FAILED", "TIMEOUT"}) =>
         ( /\ JobState' = JobState
           /\ (job'.polls > job.polls => job'.last.cause = JobState)
           /\ ( (job.last.op = "get_job_result"
                   /\ job'.last.op = "get_job_result")
                 => job'.last.ret = job.last.ret ) )]_vars


(***************************************************************************)
(* app.py: the run commands. handle_run_predict and handle_run_submit bind *)
(* the tokens, call the executor and, for predict, may save the result.    *)
(***************************************************************************)
SpaceId == <<"a", "/", "b">>
ApiName == <<"/", "p">>
CliNotes ==
    <<"G", "e", "n", "e", "r", "a", "t", "e", "d", " ",
      "v", "i", "a", " ", "C", "L", "I", " ", "'", "r",
      "u", "n", " ", "p", "r", "e", "d", "i", "c", "t",
      "'">>

\* run_space_predict(space_id, api_name, *args, hf_token=None) and
\* run_space_submit, which differs in the client method only, called as
\* app.py calls them: f(space_id, api_name, *pos_args, **kw_args,
\* hf_token=hf_token). The signature takes no other keyword, so binding any
\* keyword argument raises TypeError before the body runs. client: whether
\* gradio_client.Client(...) succeeds; answer: what the remote call returns,
\* PyObject standing for a call that raises.
run_space_predict(api_name, args, kwargs, client, answer) ==
    IF kwargs # <<>>
    THEN [raised |-> "TypeError", called |-> FALSE, api_name |-> <<>>,
          args |-> <<>>, kwargs |-> <<>>, ret |-> PyNull]
    ELSE IF ~client
    THEN [raised |-> "", called |-> FALSE, api_name |-> <<>>, args |-> <<>>,
          kwargs |-> <<>>, ret |-> PyNull]
    ELSE [raised |-> "", called |-> TRUE, api_name |-> api_name,
          args |-> args, kwargs |-> <<>>,
          ret |-> IF answer = PyObject THEN PyNull ELSE answer]

\* dict(zip([f"arg{i}" for i in range(len(pos_args))], pos_args))
ArgNames(pos_args) ==
    [i \in 1..Len(pos_args) |->
       <<(<<"a", "r", "g">> \o NatText(i - 1)), pos_args[i]>>]

\* the parameters argument of add_content: kw_args if kw_args else the
\* positional arguments under arg0, arg1, ...
StoredParameters(pos_args, kw_args) ==
    IF kw_args # <<>> THEN PyDict(kw_args) ELSE PyDict(ArgNames(pos_args))

\* os.path.exists of a result that is a string
IsLocalPath(result) == result.t = "str" /\ Exists(result.v)

\* output_data_for_db: the path or string itself, and json.dumps of a
\* result that is not a str, int, float or bool
OutputDataForDb(result) ==
    IF result.t = "str" THEN result.v
    ELSE json_dumps(result).text

\* whether the handler goes on to save: a result was returned and
\* --output_type_for_db was given
SavesResult_always(prediction_result, output_type_for_db) == TRUE

SavesResult(prediction_result, output_type_for_db) ==
    prediction_result # PyNull /\ output_type_for_db # <<>>

\* what the remote endpoint can answer: a path, a text, a list, None; and
\* PyObject when the call raises
PredictAnswers == <<PyStr(PhotoPng), PyStr(Hello),
                    PyList(<<PyInt(1), PyStr(<<"a">>)>>), PyNull, PyObject>>

\* --output_type_for_db: not given, or one of the store's types
OutputTypesForDb == <<(<<>>), <<"t", "e", "x", "t">>,
                 <<"i", "m", "a", "g", "e", "_", "p", "a", "t", "h">> >>

\* the exception classes are all subclasses of Exception, which the
\* handlers catch
handle_run_predict(maxIds) ==
    \E t \in 1..Len(OutputTypesForDb), client \in BOOLEAN,
       a \in 1..Len(PredictAnswers) :
      \E r \in {parse_run_params(cli.params_list)} :
        \E call \in {IF r.raised # ""
                     THEN [NoPredict EXCEPT !.caught = r.raised]
                     ELSE run_space_predict(ApiName, r.args_out, r.kwargs_out,
                                            client, PredictAnswers[a])} :
          LET done == [NoPredict EXCEPT
                         !.op = "predict",
                         !.output_type_for_db = OutputTypesForDb[t],
                         !.client = client, !.remote = a,
                         !.raised = IF r.raised # "" THEN "" ELSE call.raised,
                         !.called = call.called, !.api_name = call.api_name,
                         !.args = call.args, !.kwargs = call.kwargs,
                         !.ret = call.ret,
                         !.caught = IF r.raised # "" THEN r.raised
                                    ELSE call.raised]
              run_done(saved) ==
                  [NoTokens EXCEPT
                     !.pc = "ran", !.params_list = cli.params_list,
                     !.args_out = r.args_out, !.kwargs_out = r.kwargs_out,
                     !.warnings = r.warnings, !.raised = r.raised,
                     !.run = [done EXCEPT !.saved = saved]]
          IN /\ cli.pc = "parsed"
             /\ IF done.caught = ""
                   /\ SavesResult(call.ret, OutputTypesForDb[t])
                THEN /\ insert_content(
                          Input(SpaceId, SpaceId, OutputTypesForDb[t],
                                OutputDataForDb(call.ret),
                                StoredParameters(r.args_out, r.kwargs_out),
                                CliNotes), maxIds)
                     /\ cli' = run_done(seq')
                ELSE /\ cli' = run_done(0)
                     /\ UNCHANGED store_vars
             /\ UNCHANGED <<fs, gui, job, conn, local_vars>>

\* handle_run_submit: the Job the executor returns is printed and dropped
handle_run_submit ==
    \E client \in BOOLEAN, submitted \in BOOLEAN :
      \E r \in {parse_run_params(cli.params_list)} :
        \E call \in {IF r.raised # ""
                     THEN [NoPredict EXCEPT !.caught = r.raised]
                     ELSE run_space_predict(ApiName, r.args_out, r.kwargs_out,
                                            client,
                                            IF submitted THEN PyStr(<<"J">>)
                                            ELSE PyObject)} :
          /\ cli.pc = "parsed"
          /\ cli' = [NoTokens EXCEPT
                       !.pc = "ran", !.params_list = cli.params_list,
                       !.args_out = r.args_out, !.kwargs_out = r.kwargs_out,
                       !.warnings = r.warnings, !.raised = r.raised,
                       !.run = [NoPredict EXCEPT
                                  !.op = "submit", !.client = client,
                                  !.remote = IF submitted THEN 1 ELSE 0,
                                  !.raised = IF r.raised # "" THEN ""
                                             ELSE call.raised,
                                  !.called = call.called,
                                  !.api_name = call.api_name,
                                  !.args = call.args, !.kwargs = call.kwargs,
                                  !.ret = call.ret,
                                  !.caught = IF r.raised # "" THEN r.raised
                                             ELSE call.raised]]
          /\ UNCHANGED <<store_vars, fs, gui, job, conn, local_vars>>

RunTokens == <<Tokens[2], Tokens[1], Tokens[4], DeepToken>>
RunMaxTokens == 2
RunMaxIds == 2

InitRun ==
    /\ init_db
    /\ fs \in SUBSET {PhotoPng}
    /\ cli = NoTokens /\ gui = NoForm /\ job = NoJob /\ conn = NoCallers
    /\ LocalIdle

NextRun ==
    \/ bind_tokens(RunTokens, RunMaxTokens)
    \/ handle_run_predict(RunMaxIds)
    \/ handle_run_submit

SpecRun == InitRun /\ [][NextRun]_vars

\* a run command has been handled and its tokens were bound
Ran == cli.pc = "ran" /\ cli.raised = ""

\* what the remote call of the handled command returns, None when it raises
Answered ==
    IF cli.run.op = "predict"
    THEN IF PredictAnswers[cli.run.remote] = PyObject THEN PyNull
         ELSE PredictAnswers[cli.run.remote]
    ELSE IF cli.run.remote = 1 THEN PyStr(<<"J">>) ELSE PyNull

\* C22 as stated: run_space_predict and run_space_submit hand every
\* positional and every keyword argument they are called with, and the
\* api_name, to client.predict / client.submit and return its result; the
\* keyword arguments bound from the tokens of 'run predict' and 'run
\* submit' reach the remote call
C22_ArgumentsReachTheRemoteCall ==
    (Ran /\ cli.run.client) =>
      /\ cli.run.called
      /\ cli.run.api_name = ApiName
      /\ cli.run.args = cli.args_out
      /\ cli.run.kwargs = cli.kwargs_out
      /\ cli.run.ret = Answered

\* C23 as stated: no executor operation raises to its caller:
\* run_space_predict and run_space_submit return None when the client
\* cannot be created or the remote call fails, and get_job_status and
\* get_job_result return None when the job call raises or the argument is
\* not a Job
C23_ExecutorNeverRaises ==
    /\ Ran =>
         /\ cli.run.raised = ""
         /\ (~cli.run.client \/ Answered = PyNull) => cli.run.ret = PyNull
    /\ job.last.op \in {"get_job_status", "get_job_result"} =>
         /\ job.last.raised = ""
         /\ job.last.cause \in {"not a Job", "error"} => job.last.ret = PyNull
         /\ (job.last.op = "get_job_result"
              /\ job.last.cause \in {"FAILED", "TIMEOUT"})
              => job.last.ret = PyNull

(***************************************************************************)
(* space_finder.py: the favorites file                                     *)
(***************************************************************************)
NewLine == <<"\n">>
Indent4 == <<" ", " ", " ", " ">>

\* the items of a list, each on its own line, as json.dump writes them with
\* indent=4
RECURSIVE IndentItems(_)
IndentItems(xs) ==
    IF xs = <<>> THEN <<>>
    ELSE NewLine \o Indent4 \o Encode(Head(xs))
         \o (IF Len(xs) > 1 THEN <<",">> ELSE <<>>) \o IndentItems(Tail(xs))

\* json.dump(favorites, f, indent=4) of a list of scalars
json_dump_indent(favorites) ==
    IF favorites = <<>> THEN <<"[", "]">>
    ELSE <<"[">> \o IndentItems(favorites) \o NewLine \o <<"]">>

\* the list read from the file: [] when there is no file, when it is empty
\* and when its text is not JSON
ReadFavorites ==
    IF ~favorites_file.exists \/ favorites_file.content = <<>> THEN <<>>
    ELSE Only({IF r.ok THEN r.v.v ELSE <<>> :
               r \in {json_loads(favorites_file.content)}})

\* space_id not in favorites, replaced by a test that never finds it
NotIn_always(space_id, favorites) == TRUE

\* space_id not in favorites
NotIn(space_id, favorites) ==
    \A i \in 1..Len(favorites) : favorites[i] # PyStr(space_id)

add_to_favorites(ids, maxAdds) ==
    \E n \in 1..Len(ids) :
      \E favorites \in {ReadFavorites} :
        /\ Len(favorites_file.added) < maxAdds
        /\ favorites_file' =
             IF NotIn(ids[n], favorites)
             THEN [exists |-> TRUE,
                   content |-> json_dump_indent(
                                 Append(favorites, PyStr(ids[n]))),
                   added |-> Append(favorites_file.added, ids[n])]
             ELSE [favorites_file EXCEPT !.added = Append(@, ids[n])]
        /\ UNCHANGED <<store_vars, fs, cli, gui, job, conn, stdout, rl>>

\* get_favorite_spaces(): the list of the file
get_favorite_spaces == ReadFavorites

FavoriteIds == <<(<<"a", "/", "b">>), <<"a", "/", "B">>,
                 <<"x", "\"", NonAscii>> >>
MaxAdds == 4


(***************************************************************************)
(* space_runner.py: get_space_api_details captures what view_api prints    *)
(***************************************************************************)
ApiText == <<"a", "p", "i">>
MaxFetches == 1

\* the stream the caller had installed as sys.stdout may be the console or a
\* stream of its own
RedirectedByCaller == [Console EXCEPT !.stream = "caller's stream",
                                      !.before = "caller's stream"]

\* lines 17-27: the client is created; when that fails the function returns
\* None at once, otherwise sys.stdout is replaced by a new StringIO
get_space_api_details ==
    \E client \in BOOLEAN :
      /\ stdout.pc \in {"none", "returned"}
      /\ stdout.calls < MaxFetches
      /\ stdout' = IF client
                   THEN [stdout EXCEPT !.pc = "capturing",
                                       !.before = stdout.stream,
                                       !.old_stdout = stdout.stream,
                                       !.stream = "StringIO",
                                       !.api_details = PyNull,
                                       !.ret = PyNull, !.calls = @ + 1]
                   ELSE [stdout EXCEPT !.pc = "returned",
                                       !.before = stdout.stream,
                                       !.api_details = PyNull,
                                       !.ret = PyNull, !.calls = @ + 1]
      /\ UNCHANGED <<store_vars, fs, cli, gui, job, conn, favorites_file, rl>>

\* lines 28-33: client.view_api prints into the StringIO, or raises
view_api ==
    \E raises \in BOOLEAN :
      /\ stdout.pc = "capturing"
      /\ stdout' = [stdout EXCEPT
                      !.pc = "finally",
                      !.api_details = IF raises THEN PyNull
                                      ELSE PyStr(ApiText)]
      /\ UNCHANGED <<store_vars, fs, cli, gui, job, conn, favorites_file, rl>>

\* a restore that is skipped when view_api raised
Restore_on_success(s) ==
    IF s.api_details = PyNull THEN s.stream ELSE s.old_stdout

\* line 35: sys.stdout = old_stdout
Restore(s) == s.old_stdout

\* lines 34-37: the finally block, and the return
finally_restore ==
    /\ stdout.pc = "finally"
    /\ stdout' = [stdout EXCEPT !.pc = "returned",
                                !.stream = Restore(stdout),
                                !.ret = stdout.api_details]
    /\ UNCHANGED <<store_vars, fs, cli, gui, job, conn, favorites_file, rl>>

InitLocal ==
    /\ init_db
    /\ fs = {} /\ cli = NoTokens /\ gui = NoForm /\ job = NoJob
    /\ conn = NoCallers
    /\ favorites_file = NoFile
    /\ stdout \in {Console, RedirectedByCaller}
    /\ rl = NoPager

NextLocal ==
    \/ add_to_favorites(FavoriteIds, MaxAdds)
    \/ get_space_api_details
    \/ view_api
    \/ finally_restore

SpecLocal == InitLocal /\ [][NextLocal]_vars

\* the ids added so far, each once, in the order of its first addition
RECURSIVE FirstAdditions(_)
FirstAdditions(ids) ==
    IF ids = <<>> THEN <<>>
    ELSE LET before == FirstAdditions(SubSeq(ids, 1, Len(ids) - 1))
             id == ids[Len(ids)]
         IN IF \E i \in 1..Len(before) : before[i] = id THEN before
            ELSE Append(before, id)

\* C24: starting from no favorites file, after any sequence of
\* add_to_favorites calls the stored list holds each added id exactly once,
\* in the order of its first addition (so that adding an id already
\* present leaves the list as it was).
C24_FavoritesAreTheFirstAdditions ==
    get_favorite_spaces =
      [i \in 1..Len(FirstAdditions(favorites_file.added)) |->
         PyStr(FirstAdditions(favorites_file.added)[i])]

\* an id was added twice with another one in between, and the id with a
\* quote and a non-ASCII character is stored
C24_Witness ==
    /\ favorites_file.added = <<FavoriteIds[1], FavoriteIds[3], FavoriteIds[1]>>
    /\ get_favorite_spaces = <<PyStr(FavoriteIds[1]), PyStr(FavoriteIds[3])>>

\* C25: when get_space_api_details has returned, with the captured text or
\* with None (the client could not be created, or view_api raised),
\* sys.stdout is the object it was before the call.
C25_StdoutIsRestored ==
    stdout.pc = "returned" => stdout.stream = stdout.before

\* view_api raised while sys.stdout was the StringIO, the function returned
\* None, and sys.stdout is the caller's stream again
C25_Witness ==
    /\ stdout.pc = "returned" /\ stdout.old_stdout = "caller's stream"
    /\ stdout.ret = PyNull
    /\ stdout.stream = "caller's stream"

\* the extension families of the output classification
ImageExtensions == {Extensions[1], Extensions[2], Extensions[3], Extensions[4]}
AudioExtensions == {Extensions[5], Extensions[6]}
VideoExtensions == {Extensions[12], Extensions[13], Extensions[14]}

\* the output type the classification rule gives a raw result
Classified(result) ==
    IF IsLocalPath(result)
    THEN IF \E e \in ImageExtensions : EndsWith(result.v, e)
         THEN <<"i", "m", "a", "g", "e", "_", "p", "a", "t", "h">>
         ELSE IF \E e \in AudioExtensions : EndsWith(result.v, e)
         THEN <<"a", "u", "d", "i", "o", "_", "p", "a", "t", "h">>
         ELSE IF \E e \in VideoExtensions : EndsWith(result.v, e)
         THEN <<"v", "i", "d", "e", "o", "_", "p", "a", "t", "h">>
         ELSE <<"f", "i", "l", "e", "_", "p", "a", "t", "h">>
    ELSE IF result.t = "str"
    THEN IF json_loads(result.v).ok
         THEN <<"j", "s", "o", "n", "_", "d", "a", "t", "a">>
         ELSE <<"t", "e", "x", "t">>
    ELSE <<"o", "t", "h", "e", "r">>

\* 'run predict' has saved the record of its result
Saved == Ran /\ cli.run.op = "predict" /\ cli.run.saved > 0

\* C26 as stated: the record of a result carries the output type the
\* classification gives it: a string that is an existing local path is
\* image_path, audio_path, video_path or file_path by its extension,
\* whatever type was declared; another string is json_data when it decodes
\* as JSON and text otherwise; anything else is other; and the raw value is
\* persisted in every case
C26_ExistingPathDecidesTheOutputType ==
    Saved =>
      /\ cli.run.saved \in DOMAIN table
      /\ table[cli.run.saved].output_data = OutputDataForDb(cli.run.ret)
      /\ table[cli.run.saved].output_type = Classified(cli.run.ret)

\* the value stored under a key of the parameters of a record, Absent when
\* the parameters do not have the key
StoredUnder(parameters, key) ==
    IF parameters.t # "dict" THEN Absent
    ELSE IF \E i \in 1..Len(parameters.v) : parameters.v[i][1] = key
    THEN Some(parameters.v[CHOOSE i \in 1..Len(parameters.v) :
                             parameters.v[i][1] = key][2])
    ELSE Absent

\* 'run predict' was given an output type, the client could be created and
\* the Space answers the call with a result
Answers ==
    /\ Ran /\ cli.run.op = "predict"
    /\ cli.run.output_type_for_db # <<>>
    /\ cli.run.client /\ Answered # PyNull

RunPredictStep ==
    cli.pc = "parsed" /\ cli'.pc = "ran" /\ cli'.run.op = "predict"

\* C28: one 'run predict' invocation leaves every record of the store as
\* it was and adds at most one; it adds one only when the prediction
\* returned a result other than None and an output type for the database
\* was given; when the prediction returns None or an exception is raised,
\* the store is left unchanged.
C28_AtMostOneRecordOnlyForAResult ==
    [][RunPredictStep =>
         ( /\ \A id \in DOMAIN table :
                id \in DOMAIN table' /\ table'[id] = table[id]
           /\ Cardinality(DOMAIN table' \ DOMAIN table) <= 1
           /\ (DOMAIN table' # DOMAIN table) =>
                ( /\ cli'.run.ret # PyNull
                  /\ cli'.run.output_type_for_db # <<>>
                  /\ cli'.run.caught = "" )
           /\ (cli'.run.ret = PyNull \/ cli'.run.caught # "") =>
                table' = table )]_vars

\* a second 'run predict' has added its record to the one of the first
C28_Witness ==
    /\ Saved /\ cli.run.saved = 2
    /\ DOMAIN table = {1, 2}
    /\ table[2].output_data = Hello

\* a token with "=" somewhere in it, and the place of its first "="
HasEq(t) == \E p \in 1..Len(t) : t[p] = "="
FirstEq(t) ==
    CHOOSE p \in 1..Len(t) : t[p] = "=" /\ \A q \in 1..(p - 1) : t[q] # "="

\* the value a text is bound to: the file rule, else the JSON literal, else
\* the text
BoundValue(value) ==
    IF HasFileExtension(value)
    THEN IF value \in fs THEN FileRef(value) ELSE PyStr(value)
    ELSE AsLiteral(value)

\* C29: a token is split at its first "=" only: the key is the text before
\* it and the value everything after it, further "=" included; every token
\* with an "=" anywhere, a quoted string such as "x=1=2" too, is bound as a
\* keyword argument and never as a positional one; of several tokens with
\* one key the last one's value is bound.
C29_SplitAtFirstEqualsLastKeyWins ==
    Bound =>
      LET l == cli.params_list
          keyed == {n \in 1..Len(l) : HasEq(l[n])}
          key(n) == SubSeq(l[n], 1, FirstEq(l[n]) - 1)
          value(n) == SubSeq(l[n], FirstEq(l[n]) + 1, Len(l[n]))
      IN /\ Len(cli.args_out) = Len(l) - Cardinality(keyed)
         /\ \A m \in 1..Len(cli.kwargs_out) :
              \E n \in keyed : key(n) = cli.kwargs_out[m][1]
         /\ \A n \in keyed :
              (\A o \in keyed : o > n => key(o) # key(n)) =>
                \E m \in 1..Len(cli.kwargs_out) :
                  /\ cli.kwargs_out[m][1] = key(n)
                  /\ cli.kwargs_out[m][2] = BoundValue(value(n))
                  /\ \A k \in 1..Len(cli.kwargs_out) :
                       cli.kwargs_out[k][1] = key(n) => k = m

\* the quoted string "x=1=2" is bound under the key "x (with its quote) to
\* the string 1=2" (with the other), and of text=Hello and text= the later
\* one is bound
C29_Witness ==
    /\ Bound
    /\ cli.params_list = <<Tokens[1], Tokens[13], Tokens[9]>>
    /\ cli.args_out = <<>>
    /\ cli.kwargs_out =
         << <<(<<"t", "e", "x", "t">>), PyStr(<<>>)>>,
            <<(<<"\"", "x">>), PyStr(<<"1", "=", "2", "\"">>)>> >>


(***************************************************************************)
(* gui.py: the results library tab. load_results_from_db queries one page  *)
(* of the store and fills the table; the buttons move between pages.       *)
(***************************************************************************)
PagerMaxRows == 6

\* results_per_page: 15 at start; the spin box offers 5 to 100
PageSizes == {5, 6, 15}

\* the text of the Space ID filter: empty, or a space id
SpaceIdFilters == <<None, <<"s", "1">>, <<"s", "2">> >>

\* the records the store holds when the window is opened
PagerRow(id) ==
    [id |-> id,
     space_id |-> IF id % 3 = 0 THEN <<"s", "2">> ELSE <<"s", "1">>,
     task_description |-> <<"c", "a", "t">>, timestamp |-> id,
     output_type |-> <<"t", "e", "x", "t">>, output_data |-> <<"d">>,
     parameters |-> <<"{", "}">>, notes |-> None]

\* load_results_from_db(page_to_load) with results_per_page = limit and the
\* filter text space_id: setRowCount(0) empties the table before the
\* records are looked at; an empty page after the first steps the page
\* index back and returns
load_results_from_db(page_to_load, limit, space_id) ==
    LET records == filter_content(None, space_id, None, limit,
                                  page_to_load * limit)
    IN IF records = <<>> /\ page_to_load > 0
       THEN [rl EXCEPT !.pc = "loaded",
                       !.current_results_page = page_to_load - 1,
                       !.results_per_page = limit,
                       !.space_id_filter = space_id,
                       !.rows = <<>>,
                       !.page_label = page_to_load,
                       !.next_enabled = FALSE]
       ELSE [rl EXCEPT !.pc = "loaded",
                       !.current_results_page = page_to_load,
                       !.results_per_page = limit,
                       !.space_id_filter = space_id,
                       !.rows = [i \in 1..Len(records) |-> records[i].id],
                       !.page_label = page_to_load + 1,
                       !.prev_enabled = page_to_load > 0,
                       !.next_enabled = Len(records) = limit]

\* the tab is built and shows the first page
init_results_library_tab ==
    /\ rl.pc = "none"
    /\ rl' = load_results_from_db(rl.current_results_page,
                                  rl.results_per_page, rl.space_id_filter)
    /\ UNCHANGED <<store_vars, fs, cli, gui, job, conn, favorites_file, stdout>>

\* the user edits the filter and presses Filter Results
handle_rl_filter_results ==
    \E f \in 1..Len(SpaceIdFilters) :
      /\ rl.pc = "loaded"
      /\ rl' = load_results_from_db(0, rl.results_per_page, SpaceIdFilters[f])
      /\ UNCHANGED <<store_vars, fs, cli, gui, job, conn, favorites_file,
                     stdout>>

handle_rl_next_page ==
    /\ rl.pc = "loaded" /\ rl.next_enabled
    /\ rl' = load_results_from_db(rl.current_results_page + 1,
                                  rl.results_per_page, rl.space_id_filter)
    /\ UNCHANGED <<store_vars, fs, cli, gui, job, conn, favorites_file, stdout>>

handle_rl_prev_page ==
    /\ rl.pc = "loaded" /\ rl.prev_enabled
    /\ rl' = IF rl.current_results_page > 0
             THEN load_results_from_db(rl.current_results_page - 1,
                                       rl.results_per_page, rl.space_id_filter)
             ELSE rl
    /\ UNCHANGED <<store_vars, fs, cli, gui, job, conn, favorites_file, stdout>>

\* the spin box emits valueChanged for a value other than the one it has
handle_rl_limit_changed ==
    \E value \in PageSizes :
      /\ rl.pc = "loaded" /\ value # rl.results_per_page
      /\ rl' = load_results_from_db(0, value, rl.space_id_filter)
      /\ UNCHANGED <<store_vars, fs, cli, gui, job, conn, favorites_file,
                     stdout>>

\* the database file holds the records of earlier sessions
InitPager ==
    /\ \E k \in 0..PagerMaxRows : table = [i \in 1..k |-> PagerRow(i)]
    /\ issued = table
    /\ seq = Len(table)
    /\ now = Len(table)
    /\ tie_order \in {"rowid_asc", "rowid_desc"}
    /\ last = NoCall
    /\ OutsideIdle

NextPager ==
    \/ init_results_library_tab
    \/ handle_rl_filter_results
    \/ handle_rl_next_page
    \/ handle_rl_prev_page
    \/ handle_rl_limit_changed

SpecPager == InitPager /\ [][NextPager]_vars

\* the ids of the records of page p of the filtered list
PageRows(p) ==
    LET records == filter_content(None, rl.space_id_filter, None,
                                  rl.results_per_page,
                                  p * rl.results_per_page)
    IN [i \in 1..Len(records) |-> records[i].id]

\* C30 as stated: after any sequence of filter, next, previous and page
\* size actions the page index is not negative, the label shows it, and
\* the table shows exactly the rows of that page; stepping next past the
\* last page puts the index back on the last page that has rows and leaves
\* that page's rows on display
C30_TableShowsTheDisplayedPage ==
    rl.pc = "loaded" =>
      /\ rl.current_results_page >= 0
      /\ rl.page_label = rl.current_results_page + 1
      /\ rl.rows = PageRows(rl.current_results_page)

=============================================================================
